---- MODULE Spec2Model ----
(***************************************************************************)
(* Flight-route aggregation: the provider aggregation engine.              *)
(*                                                                         *)
(* The repository holds two aggregators:                                   *)
(*   - services/providers `provider.GetRoutes`, which asks provider1 and   *)
(*     provider2 in turn through the load-if-absent cache and then applies *)
(*     the caller's filters; its HTTP clients retry and carry a circuit    *)
(*     breaker each (specification SpecProvider);                          *)
(*   - usecases `RouteServiceImpl.GetRoutes`, which fans out over the      *)
(*     ProviderManager's enabled providers with one goroutine each, joins  *)
(*     them on a buffered channel, de-duplicates, sorts and caches the     *)
(*     aggregate; its providers retry in makeRequest (specification        *)
(*     SpecService).                                                       *)
(* Spec runs either; SpecFilters runs the two ApplyFilters on their own.   *)
(* SpecCancel runs either under a caller who may cancel the context;       *)
(* SpecAdapter runs one Provider1/Provider2 adapter on bodies with invalid *)
(* and foreign-tagged records; SpecHealth runs GetHealth; SpecFetch runs   *)
(* makeRequest step by step against a clock of seconds.                    *)
(* SpecRetries runs makeRequest under any configured Retries;              *)
(* SpecConcurrent runs GetOrLoad under several callers at once; SpecDedup  *)
(* runs removeDuplicates on its own; SpecAggregate follows the service's   *)
(* aggregate cache entry over its five minutes; SpecDisabled runs the      *)
(* service and the adapters with providers configured disabled.            *)
(*                                                                         *)
(* Strings are sequences of byte values, compared as Go compares strings.  *)
(***************************************************************************)
EXTENDS Integers, Sequences, FiniteSets, TLC

\* ------------------------------------------------------------------ bounds
MaxRoutes == 2      \* routes in one upstream payload (provider.GetRoutes)
MaxFanOutRoutes == 1  \* routes in one upstream payload (RouteService)
MaxTime == 2        \* clock ticks in one behaviour
MaxRequests == 2    \* GetRoutes calls in one behaviour
MaxFilterInput == 3   \* routes handed to ApplyFilters on its own
MaxPage == 2          \* the largest limit and offset tried
MaxRecords == 3       \* records in the body served to an adapter on its own
MaxCallers == 3       \* goroutines calling GetOrLoad at the same time
MaxDedupInput == 3    \* routes handed to removeDuplicates on its own
MaxServiceTime == 6   \* clock ticks (minutes) of the RouteService over an aggregate entry's life

\* ----------------------------------------------------------------- strings
AA == <<65, 65>>
UA == <<85, 65>>
JFK == <<74, 70, 75>>
LAX == <<76, 65, 88>>
SFO == <<83, 70, 79>>
CodeShareY == <<89>>
CodeShareN == <<78>>
EmptyStr == <<>>
DashStr == <<45>>
\* "A-B", "C", "A" and "B-C".
ADashB == <<65, 45, 66>>
CStr == <<67>>
AStr == <<65>>
BDashC == <<66, 45, 67>>

\* Go's string comparison a < b: bytewise lexicographic.
RECURSIVE StrLess(_, _)
StrLess(a, b) ==
    IF b = <<>> THEN FALSE
    ELSE IF a = <<>> THEN TRUE
    ELSE IF Head(a) # Head(b) THEN Head(a) < Head(b)
    ELSE StrLess(Tail(a), Tail(b))

\* The decimal digits of a non-negative integer.
RECURSIVE Digits(_)
Digits(n) ==
    IF n < 10 THEN <<48 + n>> ELSE Digits(n \div 10) \o <<48 + (n % 10)>>

\* fmt's %d verb.
FormatInt(n) ==
    IF n < 0 THEN DashStr \o Digits(-n) ELSE Digits(n)

\* ------------------------------------------------------------------ routes
ProviderNames == {"provider1", "provider2"}

Route(al, s, d, cs, st, prov) ==
    [airline |-> al, sourceAirport |-> s, destinationAirport |-> d,
     codeShare |-> cs, stops |-> st, provider |-> prov]

\* The provider field of a record that names no provider, and a value of it
\* that is no adapter's name.
Untagged == ""
ForeignTag == "upstream"

\* What an upstream can serve. Both serve the two routes of createMockRoutes,
\* tagged as the tests' servers tag them; provider1 also a route sharing the
\* first one's sort key (it differs in codeShare), provider2 one that differs
\* from the first in stops only, both without a provider field.
UpstreamRoutes(prov) ==
    { Route(AA, JFK, LAX, CodeShareY, 0, prov),
      Route(UA, JFK, SFO, CodeShareN, 1, prov) }
    \cup (IF prov = "provider1"
             THEN { Route(AA, JFK, LAX, CodeShareN, 0, Untagged) }
             ELSE { Route(AA, JFK, LAX, CodeShareY, 1, Untagged) })

SeqsUpTo(S, n) == UNION { [1..k -> S] : k \in 0..n }

\* An upstream's payload: up to n of its routes, each listed once.
Payloads(prov, n) ==
    { s \in SeqsUpTo(UpstreamRoutes(prov), n) :
        \A i, j \in 1..Len(s) : s[i] = s[j] => i = j }

\* ----------------------------------------------------------------- filters
\* MaxStops is a *int: <<>> is nil, <<n>> points to n.
Filters(al, s, d, ms, lim, off) ==
    [airline |-> al, sourceAirport |-> s, destinationAirport |-> d,
     maxStops |-> ms, limit |-> lim, offset |-> off]

NoFilters == Filters(EmptyStr, EmptyStr, EmptyStr, <<>>, 0, 0)

FilterSet ==
    { NoFilters,
      Filters(AA, EmptyStr, EmptyStr, <<0>>, 0, 0),
      Filters(EmptyStr, JFK, LAX, <<>>, 1, 1) }

DefaultLimit == 100

\* Variant: a route with exactly maxStops stops is dropped too.
RouteMatchesBelow(filters, route) ==
    /\ ~(filters.airline # EmptyStr /\ route.airline # filters.airline)
    /\ ~(filters.sourceAirport # EmptyStr
            /\ route.sourceAirport # filters.sourceAirport)
    /\ ~(filters.destinationAirport # EmptyStr
            /\ route.destinationAirport # filters.destinationAirport)
    /\ ~(filters.maxStops # <<>> /\ route.stops >= filters.maxStops[1])

RouteMatches(filters, route) ==
    /\ ~(filters.airline # EmptyStr /\ route.airline # filters.airline)
    /\ ~(filters.sourceAirport # EmptyStr
            /\ route.sourceAirport # filters.sourceAirport)
    /\ ~(filters.destinationAirport # EmptyStr
            /\ route.destinationAirport # filters.destinationAirport)
    /\ ~(filters.maxStops # <<>> /\ route.stops > filters.maxStops[1])

\* One iteration of the loop of provider.ApplyFilters on route: the state is
\* the filtered slice, the skipped counter and whether the loop has broken.
\* The limit is tested before the offset.
ApplyFiltersStep(filters, st, route) ==
    IF st.broken \/ ~RouteMatches(filters, route) THEN st
    ELSE IF filters.limit > 0 /\ Len(st.filtered) >= filters.limit
        THEN [st EXCEPT !.broken = TRUE]
    ELSE IF filters.offset > 0 /\ st.skipped < filters.offset
        THEN [st EXCEPT !.skipped = @ + 1]
    ELSE [st EXCEPT !.filtered = Append(@, route)]

\* The loop of provider.ApplyFilters over routes[lo..hi], in order, from the
\* loop state st. The range is halved and each half's state is computed
\* before the next half starts, which keeps the evaluation shallow.
RECURSIVE ApplyFiltersLoop(_, _, _, _, _)
ApplyFiltersLoop(filters, routes, st, lo, hi) ==
    IF lo > hi THEN st
    ELSE IF lo = hi THEN ApplyFiltersStep(filters, st, routes[lo])
    ELSE LET mid == (lo + hi) \div 2
         IN  CHOOSE out \in
                 { ApplyFiltersLoop(filters, routes, left, mid + 1, hi) :
                     left \in {ApplyFiltersLoop(filters, routes, st, lo, mid)} } :
                 TRUE

\* The loop from its start: nothing filtered, nothing skipped.
ApplyFiltersRun(filters, routes) ==
    ApplyFiltersLoop(filters, routes,
                     [filtered |-> <<>>, skipped |-> 0, broken |-> FALSE],
                     1, Len(routes)).filtered

\* Variant: a limit of 0 stays 0 and caps nothing.
ApplyFiltersNoDefault(filters, routes) ==
    IF Len(routes) = 0 THEN routes
    ELSE ApplyFiltersRun(filters, routes)

ApplyFilters(filters, routes) ==
    IF Len(routes) = 0 THEN routes
    ELSE LET f == IF filters.limit = 0
                     THEN [filters EXCEPT !.limit = DefaultLimit]
                     ELSE filters
         IN  ApplyFiltersRun(f, routes)

\* ------------------------------------------------ models (flight.go)
ColonStr == <<58>>
RoutesPrefix == <<114, 111, 117, 116, 101, 115, 58>>    \* "routes:"

\* getIntValue: the pointed-to value, or -1 for nil.
GetIntValue(ptr) == IF ptr = <<>> THEN -1 ELSE ptr[1]

\* CacheKey.String: "routes:%s:%s:%s:%d".
CacheKeyString(filters) ==
    RoutesPrefix \o filters.airline \o ColonStr \o filters.sourceAirport
        \o ColonStr \o filters.destinationAirport \o ColonStr
        \o FormatInt(GetIntValue(filters.maxStops))

\* RouteFilters.ApplyFilters: the four predicates, no limit and no offset.
\* The loop appends the matching routes of rs[lo..hi] in order (the range is
\* halved to keep the evaluation shallow).
RECURSIVE ModelApplyFiltersLoop(_, _, _, _)
ModelApplyFiltersLoop(filters, rs, lo, hi) ==
    IF lo > hi THEN <<>>
    ELSE IF lo = hi
        THEN IF RouteMatches(filters, rs[lo]) THEN <<rs[lo]>> ELSE <<>>
    ELSE ModelApplyFiltersLoop(filters, rs, lo, (lo + hi) \div 2)
            \o ModelApplyFiltersLoop(filters, rs, (lo + hi) \div 2 + 1, hi)

ModelApplyFilters(filters, rs) == ModelApplyFiltersLoop(filters, rs, 1, Len(rs))

\* Variant: Validate without the test of the code share.
ValidRouteNoCodeShare(r) ==
    /\ r.airline # EmptyStr
    /\ r.sourceAirport # EmptyStr
    /\ r.destinationAirport # EmptyStr
    /\ r.stops >= 0

\* FlightRoute.Validate.
ValidRoute(r) ==
    /\ r.airline # EmptyStr
    /\ r.sourceAirport # EmptyStr
    /\ r.destinationAirport # EmptyStr
    /\ r.codeShare # EmptyStr
    /\ r.stops >= 0

\* BaseProvider.validateAndProcessRoutes: invalid routes are skipped, the
\* others are stamped with the provider's name.
RECURSIVE ValidateAndProcessRoutes(_, _)
ValidateAndProcessRoutes(rs, name) ==
    IF rs = <<>> THEN <<>>
    ELSE IF ValidRoute(Head(rs))
        THEN <<[Head(rs) EXCEPT !.provider = name]>>
                 \o ValidateAndProcessRoutes(Tail(rs), name)
        ELSE ValidateAndProcessRoutes(Tail(rs), name)

\* processProvider1Routes / processProvider2Routes: the provider's name is
\* set again and the filters are applied (the equipment field, which no
\* aggregation step reads, is left out of the route).
ProcessProviderRoutes(rs, filters, name) ==
    ModelApplyFilters(filters, [i \in 1..Len(rs) |-> [rs[i] EXCEPT !.provider = name]])

\* ------------------------------------- RouteServiceImpl (route_service.go)
\* Variant: the key leaves the code share out.
RouteKeyNoCodeShare(r) ==
    r.airline \o DashStr \o r.sourceAirport \o DashStr \o r.destinationAirport
        \o DashStr \o FormatInt(r.stops)

\* removeDuplicates' key: "%s-%s-%s-%s-%d".
RouteKey(r) ==
    r.airline \o DashStr \o r.sourceAirport \o DashStr \o r.destinationAirport
        \o DashStr \o r.codeShare \o DashStr \o FormatInt(r.stops)

RECURSIVE RemoveDuplicatesLoop(_, _, _)
RemoveDuplicatesLoop(rs, seen, uniqueRoutes) ==
    IF rs = <<>> THEN uniqueRoutes
    ELSE IF RouteKey(Head(rs)) \notin seen
        THEN RemoveDuplicatesLoop(Tail(rs), seen \cup {RouteKey(Head(rs))},
                                  Append(uniqueRoutes, Head(rs)))
        ELSE RemoveDuplicatesLoop(Tail(rs), seen, uniqueRoutes)

RemoveDuplicates(rs) == RemoveDuplicatesLoop(rs, {}, <<>>)

\* sortRoutes' less function.
RouteLess(a, b) ==
    IF a.airline # b.airline THEN StrLess(a.airline, b.airline)
    ELSE IF a.sourceAirport # b.sourceAirport
        THEN StrLess(a.sourceAirport, b.sourceAirport)
    ELSE IF a.destinationAirport # b.destinationAirport
        THEN StrLess(a.destinationAirport, b.destinationAirport)
    ELSE a.stops < b.stops

InsertAt(t, i, x) == SubSeq(t, 1, i - 1) \o <<x>> \o SubSeq(t, i, Len(t))

RECURSIVE Perms(_)
Perms(s) ==
    IF s = <<>> THEN {<<>>}
    ELSE UNION { {InsertAt(t, i, Head(s)) : i \in 1..(Len(t) + 1)} :
                 t \in Perms(Tail(s)) }

\* sortRoutes: sort.Slice orders by the less function and promises no order
\* among routes neither of which is less than the other.
SortRoutes(rs) ==
    { s \in Perms(rs) : \A i \in 1..(Len(s) - 1) : ~RouteLess(s[i + 1], s[i]) }

\* Variant: a failed response is not skipped, its provider counts as used.
RECURSIVE AggregateResponsesAll(_, _, _)
AggregateResponsesAll(rsp, aggregatedRoutes, used) ==
    IF rsp = <<>> THEN [routes |-> aggregatedRoutes, providersUsed |-> used]
    ELSE AggregateResponsesAll(Tail(rsp), aggregatedRoutes \o Head(rsp).routes,
                               Append(used, Head(rsp).provider))

\* The loop over the provider responses: a failed response is logged and
\* skipped, a successful one adds its routes and its provider's name.
RECURSIVE AggregateResponses(_, _, _)
AggregateResponses(rsp, aggregatedRoutes, used) ==
    IF rsp = <<>> THEN [routes |-> aggregatedRoutes, providersUsed |-> used]
    ELSE IF Head(rsp).err # "nil"
        THEN AggregateResponses(Tail(rsp), aggregatedRoutes, used)
        ELSE AggregateResponses(Tail(rsp), aggregatedRoutes \o Head(rsp).routes,
                                Append(used, Head(rsp).provider))

AggregateTTL == 5
ProviderCacheTTL == 5

\* ------------------------------------------------------------------- state
\* config.ProviderConfig.Retries, at its default.
Retries == 3

VARIABLES
    wiring,           \* which part runs: "provider", "service", "adapter", ...
    cacheEnabled,     \* the cache configuration's Enabled
    providerEnabled,  \* provider name -> its configuration's Enabled
    pmTyped,          \* the service's manager is a *providers.ProviderManager
    retries,          \* the provider configuration's Retries
    now,              \* the clock, in minutes (in seconds for makeRequest)
    upstream,         \* provider name -> the payload its upstream serves
    cache,            \* the go-cache store: key -> [value, expiration]
    requests,         \* GetRoutes calls started so far
    filtersArg,       \* GetRoutes: its filters argument
    result,           \* what the last GetRoutes returned
    pc,               \* GetRoutes: the statement it is at
    idx,              \* GetRoutes: its loop counter
    routes,           \* GetRoutes: the routes appended so far
    outcome,          \* provider name -> how its call ended in this request
    upstreamCalls,    \* provider name -> requests made to its upstream
    breaker,          \* provider name -> the circuit breaker of its client
    enabledProviders, \* fan-out: the providers GetEnabledProviders returned
    task,             \* fan-out: provider name -> its goroutine
    chan,             \* fan-out: the buffered result channel
    closed,           \* fan-out: the channel was closed
    responses,        \* fan-out: the responses collected by the manager
    providersUsed,    \* aggregation: the providers whose call succeeded
    ctx,              \* the caller's context: "live", "canceled" or "deadline"
    lastErr,          \* makeRequest: the error of its last failed attempt
    started,          \* makeRequest: when its wait or its request began
    health,           \* what the last GetHealth returned, while it is built
    held,             \* the computed response a caller of the service holds
    gol               \* GetOrLoad called concurrently: callers and loader runs

cfgVars == <<wiring, cacheEnabled, providerEnabled, pmTyped, retries>>
envVars == <<now, upstream>>
callVars == <<requests, filtersArg, result>>
provVars == <<pc, idx, routes, outcome, upstreamCalls, breaker>>
fanVars == <<enabledProviders, task, chan, closed, responses, providersUsed>>
fetchVars == <<ctx, lastErr, started>>

vars == <<cfgVars, envVars, cache, callVars, provVars, fanVars, fetchVars,
          health, held, gol>>

\* ------------------------------------------- resilient client (resty)
\* The cool-down of an open breaker, in ticks of the clock.
CoolDown == 1

\* defaultRetryCount: the retries a client makes after the first attempt.
RetryCountZero == 0

RetryCount == 3

\* The failures that open a closed breaker.
FailureThreshold == 3

\* Variant: the clients are built without a breaker.
ClientHasNoBreaker == FALSE

\* New: SetCircuitBreaker(resty.NewCircuitBreaker()) on either client.
ClientHasBreaker == TRUE

\* Variant: both clients share provider1's breaker.
BreakerSlotShared(prov) == "provider1"

\* New: each client is given a breaker of its own.
BreakerSlot(prov) == prov

\* A breaker as NewCircuitBreaker returns it.
ClosedBreaker == [state |-> "closed", failures |-> 0, openedAt |-> 0]

\* An open breaker lets no request through.
Allow(cb) == ~ClientHasBreaker \/ cb.state # "open"

\* A failed request: the trial of a half-open breaker re-opens it, a closed
\* breaker counts it and opens at the threshold.
OnFailure(cb, t) ==
    IF ~ClientHasBreaker THEN cb
    ELSE IF cb.state = "half-open" \/ cb.failures + 1 >= FailureThreshold
        THEN [state |-> "open", failures |-> 0, openedAt |-> t]
    ELSE [cb EXCEPT !.failures = @ + 1]

\* Variant: a closed breaker keeps its count over a success.
OnSuccessKeep(cb) ==
    IF ~ClientHasBreaker \/ cb.state = "closed" THEN cb ELSE ClosedBreaker

\* A successful request: the trial of a half-open breaker closes it, a closed
\* breaker forgets the failures it had counted.
OnSuccess(cb) ==
    IF ~ClientHasBreaker THEN cb ELSE ClosedBreaker

\* One Get of a client against an upstream that fails its next nfail
\* requests: attempt after attempt, each only if the breaker lets it through,
\* to the first success or to RetryCount retries. calls counts the requests
\* that reached the upstream.
RECURSIVE RestyGet(_, _, _, _)
RestyGet(cb, nfail, attempt, t) ==
    IF ~Allow(cb) THEN [calls |-> 0, breaker |-> cb, res |-> "blocked"]
    ELSE IF attempt > nfail
        THEN [calls |-> 1, breaker |-> OnSuccess(cb), res |-> "ok"]
    ELSE IF attempt >= 1 + RetryCount
        THEN [calls |-> 1, breaker |-> OnFailure(cb, t), res |-> "failed"]
    ELSE LET rest == RestyGet(OnFailure(cb, t), nfail, attempt + 1, t)
         IN  [rest EXCEPT !.calls = @ + 1,
                          !.res = IF @ = "blocked" THEN "failed" ELSE @]

\* The upstreams of the tests: healthy, failing once, failing throughout.
UpstreamScripts == {0, 1, RetryCount + 1}

\* ------------------------------------------------------------------- cache
\* cfg.DefaultTTL, a configuration value, in minutes.
DefaultTTL == 1

\* Variant: an entry is found whatever its expiration.
CacheGetStale(c, key, t) ==
    IF key \in DOMAIN c
        THEN [found |-> TRUE, value |-> c[key].value]
        ELSE [found |-> FALSE, value |-> <<>>]

\* go-cache Get: an entry is found unless its expiration has passed.
CacheGet(c, key, t) ==
    IF key \in DOMAIN c /\ ~(c[key].expiration > 0 /\ t > c[key].expiration)
        THEN [found |-> TRUE, value |-> c[key].value]
        ELSE [found |-> FALSE, value |-> <<>>]

\* go-cache Set with a positive duration.
CacheSet(c, key, value, ttl, t) ==
    [k \in DOMAIN c \cup {key} |->
        IF k = key THEN [value |-> value, expiration |-> t + ttl] ELSE c[k]]

\* go-cache's janitor: DeleteExpired.
CacheDeleteExpired(c, t) ==
    [k \in {k \in DOMAIN c : ~(c[k].expiration > 0 /\ t > c[k].expiration)} |-> c[k]]

\* Variant: the lookup never finds the entry.
GetOrLoadLookupMiss(c, enabled, key, t) ==
    IF ~enabled THEN [kind |-> "disabled", value |-> <<>>]
    ELSE [kind |-> "miss", value |-> <<>>]

\* Variant: the lookup does not look at the configuration's Enabled.
GetOrLoadLookupEnabled(c, enabled, key, t) ==
    IF CacheGet(c, key, t).found
        THEN [kind |-> "hit", value |-> CacheGet(c, key, t).value]
        ELSE [kind |-> "miss", value |-> <<>>]

\* inMemoryCache.GetOrLoad up to the loader: "disabled" returns (nil, nil),
\* "hit" returns the entry, "miss" goes on to the loader.
GetOrLoadLookup(c, enabled, key, t) ==
    IF ~enabled THEN [kind |-> "disabled", value |-> <<>>]
    ELSE IF CacheGet(c, key, t).found
        THEN [kind |-> "hit", value |-> CacheGet(c, key, t).value]
        ELSE [kind |-> "miss", value |-> <<>>]

\* Variant: a loaded value is handed back and not stored.
GetOrLoadStoreNothing(c, key, loaded, t) ==
    [cache |-> c,
     value |-> IF loaded.err # "nil" THEN <<>> ELSE loaded.value,
     err |-> loaded.err]

\* Variant: a failed load is stored as an empty value.
GetOrLoadStoreNegative(c, key, loaded, t) ==
    IF loaded.err # "nil"
        THEN [cache |-> CacheSet(c, key, <<>>, DefaultTTL, t), value |-> <<>>,
              err |-> loaded.err]
        ELSE [cache |-> CacheSet(c, key, loaded.value, DefaultTTL, t),
              value |-> loaded.value, err |-> "nil"]

\* inMemoryCache.GetOrLoad after the loader returned: an error is handed back
\* and nothing is stored, a value is stored under DefaultTTL and handed back.
GetOrLoadStore(c, key, loaded, t) ==
    IF loaded.err # "nil"
        THEN [cache |-> c, value |-> <<>>, err |-> loaded.err]
        ELSE [cache |-> CacheSet(c, key, loaded.value, DefaultTTL, t),
              value |-> loaded.value, err |-> "nil"]

\* ------------------------------------------------- provider.GetRoutes
\* A cache key is a fixed prefix and a formatted part; no prefix is a prefix
\* of another, so the pair stands for their concatenation.
CacheKeyOfFilters(prov) ==
    IF prov = "provider1" THEN <<"provider1_routes", CacheKeyString(filtersArg)>>
                          ELSE <<"provider2_routes", CacheKeyString(filtersArg)>>

CacheKeyOf(prov) ==
    IF prov = "provider1" THEN <<"provider1_routes", EmptyStr>>
                          ELSE <<"provider2_routes", EmptyStr>>

\* provider.GetRoutes asks provider1, then provider2.
ProviderOrder == <<"provider1", "provider2">>

\* The loader of routesFromProvider1/2: one Get of the provider's client,
\* which yields the payload, or fails with the upstream's transport error or
\* status other than 200, or is stopped by the open breaker ("circuit").
LoaderOutcome(prov, run, kind) ==
    [value |-> IF run.res = "ok" THEN upstream[prov] ELSE <<>>,
     err |-> IF run.res = "ok" THEN "nil"
             ELSE IF run.res = "blocked" THEN "circuit" ELSE kind,
     calls |-> run.calls,
     breaker |-> run.breaker]

\* The loader under a context that is done (SetContext(ctx)): the Get returns
\* the context's error and no request reaches the upstream; the breaker may
\* or may not count it as a failure.
CancelledOutcomes(prov) ==
    { [value |-> <<>>, err |-> ctx, calls |-> 0, breaker |-> cb] :
        cb \in {breaker[BreakerSlot(prov)],
                OnFailure(breaker[BreakerSlot(prov)], now)} }

LoaderOutcomes(prov) ==
    IF ctx # "live" /\ Allow(breaker[BreakerSlot(prov)])
        THEN CancelledOutcomes(prov)
        ELSE { LoaderOutcome(prov,
                             RestyGet(breaker[BreakerSlot(prov)], nfail, 1, now),
                             kind) :
                 nfail \in UpstreamScripts, kind \in {"transport", "status"} }

NoResult ==
    [routes |-> <<>>, err |-> "none", served |-> FALSE, totalCount |-> 0,
     providersUsed |-> <<>>, cacheHit |-> FALSE]

\* Variant: the collected routes lose their duplicates before the filters.
GetRoutesDedup(filters, collected, outcomes) ==
    [NoResult EXCEPT !.routes = ApplyFilters(filters, RemoveDuplicates(collected)),
                     !.err = "nil", !.served = TRUE]

\* Variant: a provider's failure fails the request.
GetRoutesFailFast(filters, collected, outcomes) ==
    IF \E p \in ProviderNames : outcomes[p] \notin {"none", "hit", "loaded"}
        THEN [NoResult EXCEPT !.err = "provider", !.served = TRUE]
        ELSE [NoResult EXCEPT !.routes = ApplyFilters(filters, collected),
                              !.err = "nil", !.served = TRUE]

\* What provider.GetRoutes hands back once both providers were asked: their
\* failures were logged only.
GetRoutesReturn(filters, collected, outcomes) ==
    [NoResult EXCEPT !.routes = ApplyFilters(filters, collected),
                     !.err = "nil", !.served = TRUE]

NoTask == [st |-> "none", routes |-> <<>>, err |-> "nil"]

\* No computed response is held by a caller.
NoHeld ==
    [set |-> FALSE, key |-> <<>>, attached |-> FALSE, obj |-> NoResult,
     asReturned |-> NoResult, filters |-> NoFilters, at |-> 0]

\* GetOrLoad has no caller and the loader has not run.
NoCalls ==
    [callers |-> <<>>, runs |-> 0, produced |-> {}, failed |-> {},
     stored |-> <<>>]

\* A HealthResponse not yet built: no overall status, an empty map.
NoHealth == [status |-> "none", providers |-> <<>>, served |-> FALSE]

InitEnv(n) ==
    /\ now = 0
    /\ upstream \in [ProviderNames -> UNION {Payloads(p, n) : p \in ProviderNames}]
    /\ \A p \in ProviderNames : upstream[p] \in Payloads(p, n)
    /\ cache = <<>>
    /\ requests = 0
    /\ filtersArg = NoFilters
    /\ result = NoResult
    /\ pc = "idle"
    /\ idx = 1
    /\ routes = <<>>
    /\ outcome = [p \in ProviderNames |-> "none"]
    /\ upstreamCalls = [p \in ProviderNames |-> 0]
    /\ breaker = [p \in ProviderNames |-> ClosedBreaker]
    /\ enabledProviders = <<>>
    /\ task = [p \in ProviderNames |-> NoTask]
    /\ chan = <<>>
    /\ closed = FALSE
    /\ responses = <<>>
    /\ providersUsed = <<>>
    /\ ctx = "live"
    /\ lastErr = "nil"
    /\ started = 0
    /\ health = NoHealth
    /\ held = NoHeld
    /\ gol = NoCalls

InitProvider ==
    /\ wiring = "provider"
    /\ cacheEnabled \in BOOLEAN
    /\ providerEnabled = [p \in ProviderNames |-> TRUE]
    /\ pmTyped = TRUE
    /\ retries = Retries
    /\ InitEnv(MaxRoutes)

\* Time passes while GetRoutes is not running or waits for an upstream; the
\* statements in between take no time on the TTL's scale.  The clock is
\* followed for the cache configured with DefaultTTL; the RouteService's
\* entries live AggregateTTL and ProviderCacheTTL, longer than MaxTime.
Tick ==
    /\ wiring = "provider"
    /\ pc \in {"idle", "load"}
    /\ now < MaxTime
    /\ now' = now + 1
    /\ UNCHANGED <<cfgVars, held, gol, health, fetchVars, upstream, cache, callVars,
                   provVars, fanVars>>

\* The cache's janitor removes the expired entries.
Sweep ==
    /\ CacheDeleteExpired(cache, now) # cache
    /\ cache' = CacheDeleteExpired(cache, now)
    /\ UNCHANGED <<cfgVars, held, gol, health, fetchVars, envVars, callVars, provVars,
                   fanVars>>

\* provider.GetRoutes is called.
ProviderGetRoutes ==
    /\ wiring = "provider"
    /\ pc = "idle"
    /\ requests < MaxRequests
    /\ \E f \in FilterSet : filtersArg' = f
    /\ requests' = requests + 1
    /\ pc' = "get"
    /\ idx' = 1
    /\ routes' = <<>>
    /\ outcome' = [p \in ProviderNames |-> "none"]
    /\ result' = NoResult
    /\ ctx' = "live"
    /\ UNCHANGED <<cfgVars, held, gol, health, lastErr, started, envVars, cache, upstreamCalls, breaker,
                   fanVars>>

\* After provider i: on to the next provider, or to the filters.
AfterProvider(i) == IF i < Len(ProviderOrder) THEN "get" ELSE "filter"
NextIdx(i) == IF i < Len(ProviderOrder) THEN i + 1 ELSE i

\* routesFromProvider1/2: the cache lookup of GetOrLoad.
RoutesFromProviderLookup ==
    /\ pc = "get"
    /\ LET prov == ProviderOrder[idx]
           got == GetOrLoadLookup(cache, cacheEnabled, CacheKeyOf(prov), now)
       IN  IF got.kind = "miss"
              THEN /\ pc' = "load"
                   /\ UNCHANGED <<idx, routes, outcome>>
              ELSE /\ pc' = AfterProvider(idx)
                   /\ idx' = NextIdx(idx)
                   \* a nil from the disabled cache is no []Route: an error,
                   \* and nil routes are appended
                   /\ routes' = routes \o got.value
                   /\ outcome' = [outcome EXCEPT ![prov] =
                          IF got.kind = "hit" THEN "hit" ELSE "badtype"]
    /\ UNCHANGED <<cfgVars, held, gol, health, fetchVars, envVars, cache, callVars, upstreamCalls, breaker, fanVars>>

\* routesFromProvider1/2: the loader runs and GetOrLoad stores its value.
RoutesFromProviderLoad ==
    /\ pc = "load"
    /\ LET prov == ProviderOrder[idx]
       IN  \E loaded \in LoaderOutcomes(prov) :
             LET done == GetOrLoadStore(cache, CacheKeyOf(prov), loaded, now)
             IN  /\ cache' = done.cache
                 /\ routes' = routes \o done.value
                 /\ outcome' = [outcome EXCEPT ![prov] =
                        IF done.err = "nil" THEN "loaded" ELSE done.err]
                 /\ upstreamCalls' = [upstreamCalls EXCEPT ![prov] = @ + loaded.calls]
                 /\ breaker' = [breaker EXCEPT ![BreakerSlot(prov)] = loaded.breaker]
    /\ pc' = AfterProvider(idx)
    /\ idx' = NextIdx(idx)
    /\ UNCHANGED <<cfgVars, held, gol, health, fetchVars, envVars, callVars, fanVars>>

\* The cool-down of provider p's open breaker has elapsed: it lets one trial
\* request through.
BreakerHalfOpen(p) ==
    /\ wiring = "provider"
    /\ breaker[p].state = "open"
    /\ now >= breaker[p].openedAt + CoolDown
    /\ breaker' = [breaker EXCEPT ![p].state = "half-open"]
    /\ UNCHANGED <<cfgVars, held, gol, health, fetchVars, envVars, cache, callVars, pc, idx, routes, outcome,
                   upstreamCalls, fanVars>>

\* provider.GetRoutes returns.
ProviderReturn ==
    /\ pc = "filter"
    /\ result' = GetRoutesReturn(filtersArg, routes, outcome)
    /\ pc' = "idle"
    /\ routes' = <<>>
    /\ UNCHANGED <<cfgVars, held, gol, health, fetchVars, envVars, cache, requests, filtersArg, idx, outcome,
                   upstreamCalls, breaker, fanVars>>

\* ------------------------------------------------ RouteService wiring
\* MemoryCacheService.Get and Set: a disabled cache finds and stores nothing.
MemGet(c, enabled, key, t) ==
    IF ~enabled THEN [found |-> FALSE, value |-> <<>>] ELSE CacheGet(c, key, t)

\* Variant: Set stores nothing.
MemSetNothing(c, enabled, key, value, ttl, t) == c

MemSet(c, enabled, key, value, ttl, t) ==
    IF ~enabled THEN c ELSE CacheSet(c, key, value, ttl, t)

AggregateKey(filters) == <<"aggregated:", CacheKeyString(filters)>>
ProviderKey(prov, filters) ==
    <<IF prov = "provider1" THEN "provider1:" ELSE "provider2:",
      CacheKeyString(filters)>>

\* Variant: the buffer is one slot short of the goroutines.
ChannelCapacityShort(enabled) == Len(enabled) - 1

\* make(chan ..., len(enabledProviders)).
ChannelCapacity(enabled) == Len(enabled)

\* Variant: the collecting loop stops at the first response.
CollectCountFirst(enabled) == 1

\* The collecting loop's bound: for i := 0; i < len(enabledProviders); i++.
CollectCount(enabled) == Len(enabled)

\* The providers a fan-out may start: GetEnabledProviders' result.
FanOutTargets(enabled) == enabled

\* models.RouteFilters of the service has neither limit nor offset.
ServiceFilterSet == { f \in FilterSet : f.limit = 0 /\ f.offset = 0 }

SetPerms(S) ==
    { s \in [1..Cardinality(S) -> S] : \A i, j \in DOMAIN s : s[i] = s[j] => i = j }

\* Filter texts with a ':' in them: "A:B" and "B:C".
AColonB == <<65, 58, 66>>
BColonC == <<66, 58, 67>>

\* Filters of the service whose texts hold a ':' or whose MaxStops points
\* to -1, beside the empty filters.
AggregateFilterSet ==
    { NoFilters,
      Filters(EmptyStr, EmptyStr, EmptyStr, <<-1>>, 0, 0),
      Filters(AColonB, CStr, EmptyStr, <<>>, 0, 0),
      Filters(AStr, BColonC, EmptyStr, <<>>, 0, 0) }

\* The filters a caller of RouteServiceImpl.GetRoutes passes.
GetRoutesFilters(w) ==
    IF w = "aggregate" THEN AggregateFilterSet ELSE ServiceFilterSet

InitService ==
    /\ wiring = "service"
    /\ cacheEnabled = TRUE
    /\ providerEnabled = [p \in ProviderNames |-> TRUE]
    /\ pmTyped \in BOOLEAN
    /\ retries = Retries
    /\ InitEnv(MaxFanOutRoutes)

\* A response is held by pointer: the caller that got it as computed and the
\* cache entry it was stored under share one object, until the entry is
\* set anew. The hit path writes to the object it found.
MarkHit(h, key) ==
    IF h.set /\ h.attached /\ h.key = key
        THEN [h EXCEPT !.obj.cacheHit = TRUE]
        ELSE h

\* RouteServiceImpl.GetRoutes is called: the aggregate cache is looked up; a
\* cached response is marked as a hit (in place) and returned.
ServiceGetRoutes ==
    /\ wiring \in {"service", "aggregate"}
    /\ pc = "idle"
    /\ requests < MaxRequests
    /\ requests' = requests + 1
    /\ \E f \in GetRoutesFilters(wiring) :
         LET key == AggregateKey(f)
             got == MemGet(cache, cacheEnabled, key, now)
         IN  /\ filtersArg' = f
             /\ IF got.found
                   THEN /\ cache' = [cache EXCEPT ![key].value.cacheHit = TRUE]
                        /\ result' = [got.value EXCEPT !.cacheHit = TRUE]
                        /\ held' = MarkHit(held, key)
                        /\ pc' = "idle"
                   ELSE /\ cache' = cache
                        /\ result' = NoResult
                        /\ held' = held
                        /\ pc' = "providers"
    /\ idx' = 0
    /\ routes' = <<>>
    /\ outcome' = [p \in ProviderNames |-> "none"]
    /\ enabledProviders' = <<>>
    /\ task' = [p \in ProviderNames |-> NoTask]
    /\ chan' = <<>>
    /\ closed' = FALSE
    /\ responses' = <<>>
    /\ providersUsed' = <<>>
    /\ ctx' = "live"
    /\ UNCHANGED <<cfgVars, gol, health, lastErr, started, envVars,
                   upstreamCalls, breaker>>

\* GetEnabledProviders: the providers whose IsHealthy passes (an enabled
\* provider's probe may fail), in the map's iteration order. With none,
\* the manager returns no responses and the fallback returns at once.
GetEnabledProviders ==
    /\ pc = "providers"
    /\ \E healthy \in SUBSET {p \in ProviderNames : providerEnabled[p]} :
         \E order \in SetPerms(healthy) :
            /\ enabledProviders' = order
            /\ IF order # <<>>
                  THEN /\ pc' = "spawn"
                       /\ result' = result
                       /\ held' = held
                  ELSE IF pmTyped
                  THEN /\ pc' = "aggregate"
                       /\ result' = result
                       /\ held' = held
                  ELSE LET response ==
                               [NoResult EXCEPT !.err = "nil", !.served = TRUE]
                       IN  /\ pc' = "idle"
                           /\ result' = response
                           /\ held' = [set |-> TRUE,
                                       key |-> AggregateKey(filtersArg),
                                       attached |-> FALSE, obj |-> response,
                                       asReturned |-> response,
                             filters |-> filtersArg, at |-> now]
    /\ UNCHANGED <<cfgVars, gol, health, fetchVars, envVars, cache, requests,
                   filtersArg, idx, routes, outcome, upstreamCalls, breaker,
                   task, chan, closed, responses, providersUsed>>

\* The launching loop: go func(p) for the next provider.
Spawn ==
    /\ pc = "spawn"
    /\ idx < Len(FanOutTargets(enabledProviders))
    /\ task' = [task EXCEPT ![FanOutTargets(enabledProviders)[idx + 1]].st = "running"]
    /\ IF idx + 1 = Len(FanOutTargets(enabledProviders))
          THEN pc' = "collect" /\ idx' = 0
          ELSE pc' = pc /\ idx' = idx + 1
    /\ UNCHANGED <<cfgVars, held, gol, health, fetchVars, envVars, cache, callVars, routes, outcome,
                   upstreamCalls, breaker, enabledProviders, chan, closed, responses,
                   providersUsed>>

\* Variant: the loop goes on after a request that succeeded.
RECURSIVE MakeRequestNoStop(_, _)
MakeRequestNoStop(i, nfail) ==
    IF i >= Retries THEN [calls |-> 0, err |-> IF nfail >= Retries THEN "failed" ELSE "nil"]
    ELSE [MakeRequestNoStop(i + 1, nfail) EXCEPT !.calls = @ + 1]

\* makeRequest from its iteration i on, against an upstream that fails its
\* first nfail requests: a request per iteration, returned from at the first
\* success; when the loop runs out, "all retry attempts failed".
RECURSIVE MakeRequest(_, _)
MakeRequest(i, nfail) ==
    IF i >= Retries THEN [calls |-> 0, err |-> "failed"]
    ELSE IF i + 1 > nfail THEN [calls |-> 1, err |-> "nil"]
    ELSE [MakeRequest(i + 1, nfail) EXCEPT !.calls = @ + 1]

\* The upstreams a provider of the service meets: healthy, failing once,
\* failing throughout.
MakeRequestScripts == {0, 1, Retries}

\* What the upstream does to one GetRoutes: it fails the first nfail requests
\* and then answers; an adapter called on its own also meets an upstream
\* whose answer is no JSON of routes.
FetchScripts ==
    { [nfail |-> n, malformed |-> FALSE] : n \in MakeRequestScripts }
        \cup (IF wiring = "adapter" THEN { [nfail |-> 0, malformed |-> TRUE] }
                                    ELSE {})

\* makeRequest(requestCtx, url) and parseRoutes(data) of one GetRoutes: under a
\* context that is done the Get fails before it reaches the upstream and the
\* loop's select returns the context's error.
FetchAndParse(script) ==
    IF ctx # "live" THEN [calls |-> 0, err |-> ctx]
    ELSE LET data == MakeRequest(0, script.nfail)
         IN  IF data.err = "nil" /\ script.malformed
                THEN [data EXCEPT !.err = "parse"]
                ELSE data

\* Variant: what GetRoutes returns is cached whether it failed or not.
SetCachedRoutesAlways(c, enabled, key, err, rs, t) ==
    MemSet(c, enabled, key, rs, ProviderCacheTTL, t)

\* setCachedRoutes as GetRoutes reaches it: after makeRequest and parseRoutes
\* returned without an error, and not otherwise.
SetCachedRoutes(c, enabled, key, err, rs, t) ==
    IF err # "nil" THEN c ELSE MemSet(c, enabled, key, rs, ProviderCacheTTL, t)

\* Provider1/Provider2.GetRoutes, run by the provider's goroutine: a disabled
\* provider returns no routes and a cached list is returned; otherwise
\* makeRequest or parseRoutes fails, or the routes are validated, processed,
\* cached for five minutes and returned. Each provider reads and writes its
\* own cache key and its own upstream only.
TaskCall(p) ==
    /\ task[p].st = "running"
    /\ LET key == ProviderKey(p, filtersArg)
           got == MemGet(cache, cacheEnabled, key, now)
           processed ==
               ProcessProviderRoutes(
                   ValidateAndProcessRoutes(upstream[p], p), filtersArg, p)
       IN  IF ~providerEnabled[p]
              THEN /\ task' = [task EXCEPT ![p].st = "sending"]
                   /\ outcome' = [outcome EXCEPT ![p] = "disabled"]
                   /\ UNCHANGED <<cache, upstreamCalls, breaker>>
           ELSE IF got.found
              THEN /\ task' = [task EXCEPT ![p] =
                          [st |-> "sending", routes |-> got.value, err |-> "nil"]]
                   /\ outcome' = [outcome EXCEPT ![p] = "hit"]
                   /\ UNCHANGED <<cache, upstreamCalls, breaker>>
              ELSE /\ breaker' = breaker
                   /\ \E script \in FetchScripts :
                        LET data == FetchAndParse(script)
                            rs == IF data.err # "nil" THEN <<>> ELSE processed
                        IN  /\ upstreamCalls' =
                                  [upstreamCalls EXCEPT ![p] = @ + data.calls]
                            /\ task' = [task EXCEPT ![p] =
                                   [st |-> "sending", routes |-> rs,
                                    err |-> data.err]]
                            /\ outcome' = [outcome EXCEPT ![p] =
                                   IF data.err # "nil" THEN data.err ELSE "loaded"]
                            /\ cache' = SetCachedRoutes(cache, cacheEnabled, key,
                                                        data.err, rs, now)
    /\ UNCHANGED <<cfgVars, held, gol, health, fetchVars, envVars, callVars, pc, idx, routes,
                   enabledProviders, chan, closed, responses, providersUsed>>

\* The goroutine's send on the result channel; it blocks while the buffer
\* is full.
TaskSend(p) ==
    /\ task[p].st = "sending"
    /\ Len(chan) < ChannelCapacity(enabledProviders)
    /\ chan' = Append(chan, [routes |-> task[p].routes, provider |-> p,
                             err |-> task[p].err])
    /\ task' = [task EXCEPT ![p].st = "done"]
    /\ UNCHANGED <<cfgVars, held, gol, health, fetchVars, envVars, cache, callVars, provVars,
                   enabledProviders, closed, responses, providersUsed>>

\* The collecting loop: one receive. The manager keeps every response; the
\* fallback aggregates as it receives.
Collect ==
    /\ pc = "collect"
    /\ chan # <<>>
    /\ chan' = Tail(chan)
    /\ IF idx + 1 >= CollectCount(enabledProviders)
          THEN pc' = "close" /\ idx' = idx + 1
          ELSE pc' = pc /\ idx' = idx + 1
    /\ IF pmTyped
          THEN /\ responses' = Append(responses, Head(chan))
               /\ UNCHANGED <<routes, providersUsed>>
          ELSE LET agg == AggregateResponses(<<Head(chan)>>, routes, providersUsed)
               IN  /\ routes' = agg.routes
                   /\ providersUsed' = agg.providersUsed
                   /\ responses' = responses
    /\ UNCHANGED <<cfgVars, held, gol, health, fetchVars, envVars, cache, callVars, outcome, upstreamCalls, breaker,
                   enabledProviders, task, closed>>

\* close(responseChannel).
Close ==
    /\ pc = "close"
    /\ closed' = TRUE
    /\ pc' = "aggregate"
    /\ UNCHANGED <<cfgVars, held, gol, health, fetchVars, envVars, cache, callVars, idx, routes, outcome,
                   upstreamCalls, breaker, enabledProviders, task, chan, responses,
                   providersUsed>>

\* Variant: the computed response is marked as a cache hit.
BuildResponseMarkedHit(sortedRoutes, used) ==
    [routes |-> sortedRoutes, err |-> "nil", served |-> TRUE,
     totalCount |-> Len(sortedRoutes), providersUsed |-> used,
     cacheHit |-> TRUE]

\* The response GetRoutes builds from the aggregated routes.
BuildResponse(sortedRoutes, used) ==
    [routes |-> sortedRoutes, err |-> "nil", served |-> TRUE,
     totalCount |-> Len(sortedRoutes), providersUsed |-> used,
     cacheHit |-> FALSE]

\* removeDuplicates before sortRoutes.
UniqueSorted(aggregatedRoutes) == SortRoutes(RemoveDuplicates(aggregatedRoutes))

\* GetRoutes aggregates, removes duplicates, sorts, caches the response for
\* five minutes and returns it.
ServiceReturn ==
    /\ pc = "aggregate"
    /\ LET agg == IF pmTyped THEN AggregateResponses(responses, <<>>, <<>>)
                  ELSE [routes |-> routes, providersUsed |-> providersUsed]
       IN  \E sortedRoutes \in UniqueSorted(agg.routes) :
             LET response == BuildResponse(sortedRoutes, agg.providersUsed)
             IN  /\ result' = response
                 /\ providersUsed' = agg.providersUsed
                 /\ cache' = MemSet(cache, cacheEnabled, AggregateKey(filtersArg),
                                    response, AggregateTTL, now)
                 /\ held' = [set |-> TRUE, key |-> AggregateKey(filtersArg),
                             attached |-> cacheEnabled, obj |-> response,
                             asReturned |-> response,
                             filters |-> filtersArg, at |-> now]
    /\ pc' = "idle"
    /\ routes' = <<>>
    /\ UNCHANGED <<cfgVars, gol, health, fetchVars, envVars, requests, filtersArg, idx, outcome,
                   upstreamCalls, breaker, enabledProviders, task, chan, closed,
                   responses>>

\* The caller cancels the context of the running GetRoutes, or its deadline
\* passes.
Cancel ==
    /\ pc # "idle"
    /\ ctx = "live"
    /\ ctx' \in {"canceled", "deadline"}
    /\ UNCHANGED <<cfgVars, held, gol, health, lastErr, started, envVars, cache, callVars, provVars,
                   fanVars>>

\* The RouteService over the life of an aggregate entry: the manager is a
\* *ProviderManager, each upstream serves its first route, the clock runs
\* past AggregateTTL and the callers' filters are AggregateFilterSet.
InitAggregate ==
    /\ wiring = "aggregate"
    /\ cacheEnabled = TRUE
    /\ providerEnabled = [p \in ProviderNames |-> TRUE]
    /\ pmTyped = TRUE
    /\ retries = Retries
    /\ InitEnv(MaxFanOutRoutes)
    /\ upstream = [p \in ProviderNames |-> <<Route(AA, JFK, LAX, CodeShareY, 0, p)>>]

\* A minute passes between two calls; a call's own statements take no time
\* on the scale of AggregateTTL.
TickService ==
    /\ wiring = "aggregate"
    /\ pc = "idle"
    /\ now < MaxServiceTime
    /\ now' = now + 1
    /\ UNCHANGED <<cfgVars, held, gol, health, fetchVars, upstream, cache, callVars,
                   provVars, fanVars>>

NextService ==
    \/ ServiceGetRoutes
    \/ GetEnabledProviders
    \/ Spawn
    \/ \E p \in ProviderNames : TaskCall(p)
    \/ \E p \in ProviderNames : TaskSend(p)
    \/ Collect
    \/ Close
    \/ ServiceReturn

NextAggregate == NextService \/ TickService \/ Sweep

SpecAggregate == InitAggregate /\ [][NextAggregate]_vars

SpecService == InitService /\ [][NextService]_vars

NextProvider ==
    \/ Tick
    \/ Sweep
    \/ ProviderGetRoutes
    \/ RoutesFromProviderLookup
    \/ RoutesFromProviderLoad
    \/ \E p \in ProviderNames : BreakerHalfOpen(p)
    \/ ProviderReturn

SpecProvider == InitProvider /\ [][NextProvider]_vars

\* Either aggregator.
Init == InitProvider \/ InitService

Next == NextProvider \/ NextService

Spec == Init /\ [][Next]_vars

\* Either aggregator, under a caller that may give the call up: the cache is
\* enabled, the manager is a *ProviderManager and the upstreams serve the
\* short payloads.
InitCancel ==
    /\ wiring \in {"provider", "service"}
    /\ cacheEnabled = TRUE
    /\ providerEnabled = [p \in ProviderNames |-> TRUE]
    /\ pmTyped = TRUE
    /\ retries = Retries
    /\ InitEnv(MaxFanOutRoutes)

NextCancel == Next \/ Cancel

SpecCancel == InitCancel /\ [][NextCancel]_vars

\* -------------------------------------------- a provider adapter on its own
\* The records an upstream's body can hold: two that pass Validate, one of
\* them untagged and one tagged by the upstream, and one that fails each of
\* Validate's tests.
RawRecords ==
    { Route(AA, JFK, LAX, CodeShareY, 0, Untagged),
      Route(UA, JFK, SFO, CodeShareN, 1, ForeignTag),
      Route(EmptyStr, JFK, LAX, CodeShareY, 0, Untagged),
      Route(AA, EmptyStr, LAX, CodeShareY, 0, Untagged),
      Route(AA, JFK, EmptyStr, CodeShareY, 0, Untagged),
      Route(AA, JFK, LAX, EmptyStr, 0, Untagged),
      Route(AA, JFK, LAX, CodeShareY, -1, Untagged) }

Bodies == SeqsUpTo(RawRecords, MaxRecords)

\* Provider1 or Provider2 built over a cache, its GetRoutes called by a test:
\* one of the two upstreams serves the body, the other an empty array.
InitAdapter ==
    /\ wiring = "adapter"
    /\ cacheEnabled \in BOOLEAN
    /\ providerEnabled = [p \in ProviderNames |-> TRUE]
    /\ pmTyped = TRUE
    /\ retries = Retries
    /\ now = 0
    /\ \E p \in ProviderNames : \E body \in Bodies :
          upstream = [q \in ProviderNames |-> IF q = p THEN body ELSE <<>>]
    /\ cache = <<>>
    /\ requests = 0
    /\ filtersArg = NoFilters
    /\ result = NoResult
    /\ pc = "idle"
    /\ idx = 1
    /\ routes = <<>>
    /\ outcome = [p \in ProviderNames |-> "none"]
    /\ upstreamCalls = [p \in ProviderNames |-> 0]
    /\ breaker = [p \in ProviderNames |-> ClosedBreaker]
    /\ enabledProviders = <<>>
    /\ task = [p \in ProviderNames |-> NoTask]
    /\ chan = <<>>
    /\ closed = FALSE
    /\ responses = <<>>
    /\ providersUsed = <<>>
    /\ ctx = "live"
    /\ lastErr = "nil"
    /\ started = 0
    /\ health = NoHealth
    /\ held = NoHeld
    /\ gol = NoCalls

\* p.GetRoutes(ctx, filters) is called on adapter p.
AdapterCall(p) ==
    /\ wiring = "adapter"
    /\ \A q \in ProviderNames : task[q].st = "none"
    /\ requests < MaxRequests
    /\ requests' = requests + 1
    /\ \E f \in ServiceFilterSet : filtersArg' = f
    /\ result' = NoResult
    /\ task' = [task EXCEPT ![p] = [NoTask EXCEPT !.st = "running"]]
    /\ outcome' = [q \in ProviderNames |-> "none"]
    /\ ctx' = "live"
    /\ UNCHANGED <<cfgVars, held, gol, health, lastErr, started, envVars, cache, pc, idx, routes,
                   upstreamCalls, breaker, enabledProviders, chan, closed,
                   responses, providersUsed>>

\* The call returns its routes and its error to the test.
AdapterReturn(p) ==
    /\ wiring = "adapter"
    /\ task[p].st = "sending"
    /\ result' = [NoResult EXCEPT !.routes = task[p].routes,
                                  !.err = task[p].err, !.served = TRUE]
    /\ task' = [task EXCEPT ![p].st = "none"]
    /\ UNCHANGED <<cfgVars, held, gol, health, fetchVars, envVars, cache, requests, filtersArg,
                   provVars, enabledProviders, chan, closed, responses,
                   providersUsed>>

NextAdapter ==
    \/ \E p \in ProviderNames : AdapterCall(p)
    \/ \E p \in ProviderNames : TaskCall(p)
    \/ \E p \in ProviderNames : AdapterReturn(p)

SpecAdapter == InitAdapter /\ [][NextAdapter]_vars

\* ----------------------------------------- GetHealth (route_service.go)
\* Variant: the overall status without the second pass over the statuses.
OverallStatusOnePass(statuses) ==
    IF \E p \in DOMAIN statuses : statuses[p] = "unhealthy"
        THEN "degraded"
        ELSE "healthy"

\* GetHealth's overall status: "healthy", "degraded" once a status is
\* "unhealthy", and "unhealthy" when no status is "healthy".
OverallStatus(statuses) ==
    LET overallStatus ==
            IF \E p \in DOMAIN statuses : statuses[p] = "unhealthy"
                THEN "degraded"
                ELSE "healthy"
        hasHealthyProvider == \E p \in DOMAIN statuses : statuses[p] = "healthy"
    IN  IF ~hasHealthyProvider THEN "unhealthy" ELSE overallStatus

\* Variant: IsHealthy does not look at the configuration's Enabled.
IsHealthyOfAny(p) ==
    IF ctx # "live" THEN {FALSE} ELSE BOOLEAN

\* Provider1/Provider2.IsHealthy: a disabled provider is unhealthy without a
\* probe; the probe of an enabled one fails under a context that is done and
\* passes or fails with its upstream otherwise.
IsHealthy(p) ==
    IF ~providerEnabled[p] THEN {FALSE}
    ELSE IF ctx # "live" THEN {FALSE}
    ELSE BOOLEAN

\* The service over the manager app.go builds, which holds both providers
\* whether enabled or not; GetHealth is called on it.
InitHealth ==
    /\ wiring = "health"
    /\ cacheEnabled = TRUE
    /\ providerEnabled \in [ProviderNames -> BOOLEAN]
    /\ pmTyped \in BOOLEAN
    /\ retries = Retries
    /\ now = 0
    /\ upstream = [p \in ProviderNames |-> <<>>]
    /\ cache = <<>>
    /\ requests = 0
    /\ filtersArg = NoFilters
    /\ result = NoResult
    /\ pc = "idle"
    /\ idx = 1
    /\ routes = <<>>
    /\ outcome = [p \in ProviderNames |-> "none"]
    /\ upstreamCalls = [p \in ProviderNames |-> 0]
    /\ breaker = [p \in ProviderNames |-> ClosedBreaker]
    /\ enabledProviders = <<>>
    /\ task = [p \in ProviderNames |-> NoTask]
    /\ chan = <<>>
    /\ closed = FALSE
    /\ responses = <<>>
    /\ providersUsed = <<>>
    /\ ctx = "live"
    /\ lastErr = "nil"
    /\ started = 0
    /\ health = NoHealth
    /\ held = NoHeld
    /\ gol = NoCalls

\* GetHealth is called: the map of statuses is made.
GetHealth ==
    /\ wiring = "health"
    /\ pc = "idle"
    /\ requests < MaxRequests
    /\ requests' = requests + 1
    /\ pc' = "statuses"
    /\ health' = NoHealth
    /\ ctx' = "live"
    /\ UNCHANGED <<cfgVars, held, gol, lastErr, started, envVars, cache, filtersArg,
                   result, idx, routes, outcome, upstreamCalls, breaker,
                   fanVars>>

\* One iteration of the loop over the registered providers
\* (GetProviderStatuses, or GetAllProviders in the fallback), in the map's
\* iteration order: the provider's IsHealthy decides its status.
ProbeProvider(p) ==
    /\ pc = "statuses"
    /\ p \notin DOMAIN health.providers
    /\ \E ok \in IsHealthy(p) :
          health' = [health EXCEPT !.providers =
              [q \in DOMAIN health.providers \cup {p} |->
                  IF q = p THEN (IF ok THEN "healthy" ELSE "unhealthy")
                           ELSE health.providers[q]]]
    /\ UNCHANGED <<cfgVars, held, gol, fetchVars, envVars, cache, callVars, provVars,
                   fanVars>>

\* After the loop the overall status is derived and the response returned.
GetHealthReturn ==
    /\ pc = "statuses"
    /\ DOMAIN health.providers = ProviderNames
    /\ health' = [health EXCEPT !.status = OverallStatus(health.providers),
                                !.served = TRUE]
    /\ pc' = "idle"
    /\ UNCHANGED <<cfgVars, held, gol, fetchVars, envVars, cache, callVars, idx, routes,
                   outcome, upstreamCalls, breaker, fanVars>>

NextHealth ==
    \/ GetHealth
    \/ \E p \in ProviderNames : ProbeProvider(p)
    \/ GetHealthReturn
    \/ Cancel

SpecHealth == InitHealth /\ [][NextHealth]_vars

\* ------------------------------------------ providers configured disabled
\* The requests IsHealthy sends: the probe of an enabled provider's /health.
IsHealthyProbes(p) == IF ~providerEnabled[p] THEN 0 ELSE 1

\* The service, or an adapter called on its own, with any of the providers
\* configured disabled: the cache is enabled and each upstream serves its
\* first route.
InitDisabled ==
    /\ wiring \in {"service", "adapter"}
    /\ cacheEnabled = TRUE
    /\ providerEnabled \in [ProviderNames -> BOOLEAN]
    /\ pmTyped \in BOOLEAN
    /\ retries = Retries
    /\ InitEnv(MaxFanOutRoutes)
    /\ upstream = [p \in ProviderNames |-> <<Route(AA, JFK, LAX, CodeShareY, 0, p)>>]

\* p.IsHealthy(ctx) is called on adapter p and returns.
IsHealthyCall(p) ==
    /\ wiring = "adapter"
    /\ \A q \in ProviderNames : task[q].st = "none"
    /\ ctx = "live"
    /\ requests < MaxRequests
    /\ requests' = requests + 1
    /\ \E ok \in IsHealthy(p) :
          /\ result' = [NoResult EXCEPT
                            !.err = IF ok THEN "nil" ELSE "unhealthy",
                            !.served = TRUE]
          /\ outcome' = [q \in ProviderNames |->
                            IF q # p THEN "none"
                            ELSE IF ok THEN "healthy" ELSE "unhealthy"]
    /\ upstreamCalls' = [upstreamCalls EXCEPT ![p] = @ + IsHealthyProbes(p)]
    /\ UNCHANGED <<cfgVars, held, gol, health, fetchVars, envVars, cache,
                   filtersArg, pc, idx, routes, breaker, fanVars>>

NextDisabled ==
    \/ NextService
    \/ NextAdapter
    \/ \E p \in ProviderNames : IsHealthyCall(p)

SpecDisabled == InitDisabled /\ [][NextDisabled]_vars

\* ------------------------------------- makeRequest on its own (seconds)
\* Provider1.GetRoutes from the making of its request context to the return
\* of makeRequest, with the clock counting the seconds since the context was
\* made. The context ends when its caller cancels it or when the provider's
\* timeout has passed; the shared HTTP client is built with the same timeout
\* (app.go, NewHTTPClient).
FetchProvider == "provider1"

Timeout == 10

\* Variant: the waits shrink from one attempt to the next.
BackoffShrinking(i) == Retries - i

\* time.Duration(i) * time.Second, in seconds.
Backoff(i) == i

\* Variant: the loop makes one more iteration.
LoopDoneLate(i, n) == i > n

\* makeRequest's loop condition i < p.config.Retries, negated.
LoopDone(i, n) == i >= n

InitFetch ==
    /\ wiring = "fetch"
    /\ cacheEnabled \in BOOLEAN
    /\ providerEnabled = [p \in ProviderNames |-> TRUE]
    /\ pmTyped = TRUE
    /\ retries = Retries
    /\ now = 0
    /\ upstream = [p \in ProviderNames |-> <<>>]
    /\ cache = <<>>
    /\ requests = 0
    /\ filtersArg = NoFilters
    /\ result = NoResult
    /\ pc = "idle"
    /\ idx = 0
    /\ routes = <<>>
    /\ outcome = [p \in ProviderNames |-> "none"]
    /\ upstreamCalls = [p \in ProviderNames |-> 0]
    /\ breaker = [p \in ProviderNames |-> ClosedBreaker]
    /\ enabledProviders = <<>>
    /\ task = [p \in ProviderNames |-> NoTask]
    /\ chan = <<>>
    /\ closed = FALSE
    /\ responses = <<>>
    /\ providersUsed = <<>>
    /\ ctx = "live"
    /\ lastErr = "nil"
    /\ started = 0
    /\ health = NoHealth
    /\ held = NoHeld
    /\ gol = NoCalls

\* GetRoutes missed its cache, made the request context and calls
\* makeRequest.
FetchCall ==
    /\ wiring = "fetch"
    /\ pc = "idle"
    /\ requests = 0
    /\ requests' = 1
    /\ \E f \in ServiceFilterSet : filtersArg' = f
    /\ pc' = "loop"
    /\ idx' = 0
    /\ UNCHANGED <<cfgVars, held, gol, health, fetchVars, envVars, cache, result, routes,
                   outcome, upstreamCalls, breaker, fanVars>>

\* httpClient.Get is called in iteration i: under a context that is done the
\* client returns its error without a request, otherwise the request goes
\* out.
BeginGet(i) ==
    IF ctx # "live"
        THEN /\ lastErr' = ctx
             /\ idx' = i + 1
             /\ pc' = "loop"
             /\ UNCHANGED <<started, upstreamCalls>>
        ELSE /\ pc' = "get"
             /\ started' = now
             /\ upstreamCalls' =
                   [upstreamCalls EXCEPT ![FetchProvider] = @ + 1]
             /\ UNCHANGED <<idx, lastErr>>

\* The head of the loop: after the last iteration the attempts have all
\* failed; before the first attempt there is no wait.
FetchLoop ==
    /\ pc = "loop"
    /\ IF LoopDone(idx, retries)
          THEN /\ pc' = "idle"
               /\ result' = [NoResult EXCEPT !.err = "failed", !.served = TRUE]
               /\ UNCHANGED <<idx, lastErr, started, upstreamCalls>>
          ELSE IF idx > 0
          THEN /\ pc' = "wait"
               /\ started' = now
               /\ UNCHANGED <<idx, lastErr, upstreamCalls, result>>
          ELSE /\ BeginGet(idx)
               /\ result' = result
    /\ UNCHANGED <<cfgVars, held, gol, health, ctx, envVars, cache, requests, filtersArg,
                   routes, outcome, breaker, fanVars>>

\* The select's first case: the context is done, its error is returned.
WaitCancelled ==
    /\ pc = "wait"
    /\ ctx # "live"
    /\ pc' = "idle"
    /\ result' = [NoResult EXCEPT !.err = ctx, !.served = TRUE]
    /\ UNCHANGED <<cfgVars, held, gol, health, fetchVars, envVars, cache, requests,
                   filtersArg, idx, routes, outcome, upstreamCalls, breaker,
                   fanVars>>

\* The select's second case: the timer has fired.
WaitElapsed ==
    /\ pc = "wait"
    /\ now - started >= Backoff(idx)
    /\ BeginGet(idx)
    /\ UNCHANGED <<cfgVars, held, gol, health, ctx, envVars, cache, callVars, routes,
                   outcome, breaker, fanVars>>

\* The upstream answers: makeRequest returns the body.
GetAnswer ==
    /\ pc = "get"
    /\ ctx = "live"
    /\ pc' = "idle"
    /\ result' = [NoResult EXCEPT !.err = "nil", !.served = TRUE]
    /\ UNCHANGED <<cfgVars, held, gol, health, fetchVars, envVars, cache, requests,
                   filtersArg, idx, routes, outcome, upstreamCalls, breaker,
                   fanVars>>

\* The attempt fails: the upstream is unreachable or answers with an error
\* status ("transport"), the client's timeout passes ("timeout"), or the
\* context is done. The error is kept and the loop goes on.
GetFail(err) ==
    /\ pc = "get"
    /\ \/ err = "transport" /\ ctx = "live"
       \/ err = "timeout" /\ now - started >= Timeout
       \/ err = ctx /\ ctx # "live"
    /\ lastErr' = err
    /\ idx' = idx + 1
    /\ pc' = "loop"
    /\ UNCHANGED <<cfgVars, held, gol, health, ctx, started, envVars, cache, callVars,
                   routes, outcome, upstreamCalls, breaker, fanVars>>

\* A second passes while makeRequest waits for its timer or its answer; a
\* timer that has fired, and a context that is done, are served before the
\* clock moves on. When the provider's timeout has passed, the request
\* context is done.
TickFetch ==
    /\ wiring = "fetch"
    /\ pc \in {"wait", "get"}
    /\ ctx = "live"
    /\ pc = "wait" => now - started < Backoff(idx)
    /\ pc = "get" => now - started < Timeout
    /\ now' = now + 1
    /\ ctx' = IF now + 1 >= Timeout THEN "deadline" ELSE ctx
    /\ UNCHANGED <<cfgVars, held, gol, health, lastErr, started, upstream, cache,
                   callVars, provVars, fanVars>>

\* The values Retries is configured with: nothing checks the number, so it
\* may be zero or negative.
RetriesSet == -1..Retries

\* makeRequest under any configured Retries.
InitRetries ==
    /\ wiring = "fetch"
    /\ cacheEnabled = FALSE
    /\ providerEnabled = [p \in ProviderNames |-> TRUE]
    /\ pmTyped = TRUE
    /\ retries \in RetriesSet
    /\ now = 0
    /\ upstream = [p \in ProviderNames |-> <<>>]
    /\ cache = <<>>
    /\ requests = 0
    /\ filtersArg = NoFilters
    /\ result = NoResult
    /\ pc = "idle"
    /\ idx = 0
    /\ routes = <<>>
    /\ outcome = [p \in ProviderNames |-> "none"]
    /\ upstreamCalls = [p \in ProviderNames |-> 0]
    /\ breaker = [p \in ProviderNames |-> ClosedBreaker]
    /\ enabledProviders = <<>>
    /\ task = [p \in ProviderNames |-> NoTask]
    /\ chan = <<>>
    /\ closed = FALSE
    /\ responses = <<>>
    /\ providersUsed = <<>>
    /\ ctx = "live"
    /\ lastErr = "nil"
    /\ started = 0
    /\ health = NoHealth
    /\ held = NoHeld
    /\ gol = NoCalls

NextFetch ==
    \/ FetchCall
    \/ FetchLoop
    \/ WaitCancelled
    \/ WaitElapsed
    \/ GetAnswer
    \/ \E err \in {"transport", "timeout", "canceled", "deadline"} : GetFail(err)
    \/ TickFetch
    \/ Cancel

SpecFetch == InitFetch /\ [][NextFetch]_vars

SpecRetries == InitRetries /\ [][NextFetch]_vars

\* ------------------------------- GetOrLoad called concurrently (cache.go)
\* Goroutines call inMemoryCache.GetOrLoad, once each, on the keys of the two
\* providers. A caller is at its lookup, in its loader, at its Set, or done.
\* Each run of the loader has a number; a run that succeeds produces a value
\* that names it. The clock runs and the janitor sweeps meanwhile.
CallerIds == 1..MaxCallers

ConcurrentKeys == { CacheKeyOf(p) : p \in ProviderNames }

NoCaller == [st |-> "idle", key |-> <<>>, value |-> <<>>, err |-> "nil", run |-> 0]

InitConcurrent ==
    /\ wiring = "concurrent"
    /\ cacheEnabled \in BOOLEAN
    /\ providerEnabled = [p \in ProviderNames |-> TRUE]
    /\ pmTyped = TRUE
    /\ retries = Retries
    /\ now = 0
    /\ upstream = [p \in ProviderNames |-> <<>>]
    /\ cache = <<>>
    /\ requests = 0
    /\ filtersArg = NoFilters
    /\ result = NoResult
    /\ pc = "idle"
    /\ idx = 1
    /\ routes = <<>>
    /\ outcome = [p \in ProviderNames |-> "none"]
    /\ upstreamCalls = [p \in ProviderNames |-> 0]
    /\ breaker = [p \in ProviderNames |-> ClosedBreaker]
    /\ enabledProviders = <<>>
    /\ task = [p \in ProviderNames |-> NoTask]
    /\ chan = <<>>
    /\ closed = FALSE
    /\ responses = <<>>
    /\ providersUsed = <<>>
    /\ ctx = "live"
    /\ lastErr = "nil"
    /\ started = 0
    /\ health = NoHealth
    /\ held = NoHeld
    /\ gol = [NoCalls EXCEPT !.callers = [c \in CallerIds |-> NoCaller]]

ConcurrentFrame ==
    UNCHANGED <<cfgVars, held, health, fetchVars, envVars, callVars, provVars,
                fanVars>>

\* Caller c calls GetOrLoad(k, loader).
GetOrLoadCall(c, k) ==
    /\ wiring = "concurrent"
    /\ gol.callers[c].st = "idle"
    /\ gol' = [gol EXCEPT !.callers[c] = [NoCaller EXCEPT !.st = "lookup", !.key = k]]
    /\ cache' = cache
    /\ ConcurrentFrame

\* The check of cfg.Enabled and the Get under the read lock: a disabled
\* cache returns (nil, nil), a found entry is returned, a miss goes on to the
\* loader.
GetOrLoadGet(c) ==
    /\ gol.callers[c].st = "lookup"
    /\ LET got == GetOrLoadLookup(cache, cacheEnabled, gol.callers[c].key, now)
       IN  gol' = [gol EXCEPT !.callers[c] =
                IF got.kind = "miss"
                    THEN [@ EXCEPT !.st = "load"]
                    ELSE [@ EXCEPT !.st = "done", !.value = got.value]]
    /\ cache' = cache
    /\ ConcurrentFrame

\* The caller's loader runs, outside any lock: it fails, and GetOrLoad
\* returns its error, or it produces a value.
LoaderRun(c) ==
    /\ gol.callers[c].st = "load"
    /\ LET run == gol.runs + 1
           key == gol.callers[c].key
       IN  \E ok \in BOOLEAN :
             LET loaded == [value |-> [key |-> key, run |-> run],
                            err |-> IF ok THEN "nil" ELSE "load"]
             IN  IF ok
                    THEN gol' = [gol EXCEPT
                                   !.runs = run,
                                   !.produced = @ \cup {loaded.value},
                                   !.callers[c] = [@ EXCEPT !.st = "store",
                                                            !.run = run,
                                                            !.value = loaded.value]]
                    ELSE gol' = [gol EXCEPT
                                   !.runs = run,
                                   !.failed = @ \cup {run},
                                   !.callers[c] =
                                       [@ EXCEPT !.st = "done", !.run = run,
                                                 !.err = GetOrLoadStore(cache, key,
                                                            loaded, now).err]]
    /\ cache' = cache
    /\ ConcurrentFrame

\* cache.Set of the loaded value, and the return.
GetOrLoadSet(c) ==
    /\ gol.callers[c].st = "store"
    /\ LET key == gol.callers[c].key
           out == GetOrLoadStore(cache, key,
                                 [value |-> gol.callers[c].value, err |-> "nil"],
                                 now)
       IN  /\ cache' = out.cache
           /\ gol' = [gol EXCEPT
                        !.callers[c] = [@ EXCEPT !.st = "done", !.value = out.value],
                        !.stored = [k \in DOMAIN gol.stored \cup {key} |->
                                       IF k = key THEN now ELSE gol.stored[k]]]
    /\ ConcurrentFrame

\* A minute passes.
TickConcurrent ==
    /\ wiring = "concurrent"
    /\ now < MaxTime
    /\ now' = now + 1
    /\ UNCHANGED <<cfgVars, held, gol, health, fetchVars, upstream, cache,
                   callVars, provVars, fanVars>>

NextConcurrent ==
    \/ \E c \in CallerIds : \E k \in ConcurrentKeys : GetOrLoadCall(c, k)
    \/ \E c \in CallerIds : GetOrLoadGet(c)
    \/ \E c \in CallerIds : LoaderRun(c)
    \/ \E c \in CallerIds : GetOrLoadSet(c)
    \/ TickConcurrent
    \/ Sweep

SpecConcurrent == InitConcurrent /\ [][NextConcurrent]_vars

\* ------------------------------------------- removeDuplicates on its own
\* The routes handed to removeDuplicates: one route under both providers'
\* tags, a second route, and two routes whose airline and source airport
\* differ while the texts joined by '-' are the same.
DedupRoutes ==
    { Route(AA, JFK, LAX, CodeShareY, 0, "provider1"),
      Route(AA, JFK, LAX, CodeShareY, 0, "provider2"),
      Route(UA, JFK, SFO, CodeShareN, 1, "provider1"),
      Route(ADashB, CStr, LAX, CodeShareY, 0, "provider1"),
      Route(AStr, BDashC, LAX, CodeShareY, 0, "provider2") }

DedupInputs == SeqsUpTo(DedupRoutes, MaxDedupInput)

InitDedup ==
    /\ wiring = "dedup"
    /\ cacheEnabled = FALSE
    /\ providerEnabled = [p \in ProviderNames |-> TRUE]
    /\ pmTyped = TRUE
    /\ retries = Retries
    /\ now = 0
    /\ upstream = [p \in ProviderNames |-> <<>>]
    /\ cache = <<>>
    /\ requests = 0
    /\ filtersArg = NoFilters
    /\ result = NoResult
    /\ pc = "idle"
    /\ idx = 1
    /\ routes \in DedupInputs
    /\ outcome = [p \in ProviderNames |-> "none"]
    /\ upstreamCalls = [p \in ProviderNames |-> 0]
    /\ breaker = [p \in ProviderNames |-> ClosedBreaker]
    /\ enabledProviders = <<>>
    /\ task = [p \in ProviderNames |-> NoTask]
    /\ chan = <<>>
    /\ closed = FALSE
    /\ responses = <<>>
    /\ providersUsed = <<>>
    /\ ctx = "live"
    /\ lastErr = "nil"
    /\ started = 0
    /\ health = NoHealth
    /\ held = NoHeld
    /\ gol = NoCalls

\* rs.removeDuplicates(routes) is called.
RemoveDuplicatesCall ==
    /\ wiring = "dedup" /\ pc = "idle"
    /\ result' = [NoResult EXCEPT !.routes = RemoveDuplicates(routes),
                                  !.err = "nil", !.served = TRUE]
    /\ pc' = "deduped"
    /\ UNCHANGED <<cfgVars, held, gol, health, fetchVars, envVars, cache, requests, filtersArg, idx, routes,
                   outcome, upstreamCalls, breaker, fanVars>>

NextDedup == RemoveDuplicatesCall

SpecDedup == InitDedup /\ [][NextDedup]_vars

\* ------------------------------------------------ ApplyFilters on its own
\* The routes of TestProvider_ApplyFilters' kind: the upstreams' routes and
\* one flying the other way.
FilterRoutes ==
    UpstreamRoutes("provider1") \cup UpstreamRoutes("provider2")
        \cup { Route(AA, LAX, JFK, CodeShareY, 0, "provider2") }

\* A list longer than the default limit.
LongInput == [i \in 1..(DefaultLimit + 1) |-> Route(AA, JFK, LAX, CodeShareY, 0, "provider1")]

FilterInputs == SeqsUpTo(FilterRoutes, MaxFilterInput) \cup {LongInput}

PageFilters ==
    { Filters(al, s, EmptyStr, ms, lim, off) :
        al \in {EmptyStr, AA}, s \in {EmptyStr, JFK}, ms \in {<<>>, <<0>>},
        lim \in 0..MaxPage, off \in 0..MaxPage }
        \cup { Filters(EmptyStr, EmptyStr, LAX, <<1>>, 0, 0) }

InitFilters ==
    /\ wiring = "filters"
    /\ cacheEnabled = FALSE
    /\ providerEnabled = [p \in ProviderNames |-> TRUE]
    /\ pmTyped = TRUE
    /\ retries = Retries
    /\ now = 0
    /\ upstream = [p \in ProviderNames |-> <<>>]
    /\ cache = <<>>
    /\ requests = 0
    /\ filtersArg \in PageFilters
    /\ result = NoResult
    /\ pc = "idle"
    /\ idx = 1
    /\ routes \in FilterInputs
    /\ outcome = [p \in ProviderNames |-> "none"]
    /\ upstreamCalls = [p \in ProviderNames |-> 0]
    /\ breaker = [p \in ProviderNames |-> ClosedBreaker]
    /\ enabledProviders = <<>>
    /\ task = [p \in ProviderNames |-> NoTask]
    /\ chan = <<>>
    /\ closed = FALSE
    /\ responses = <<>>
    /\ providersUsed = <<>>
    /\ ctx = "live"
    /\ lastErr = "nil"
    /\ started = 0
    /\ health = NoHealth
    /\ held = NoHeld
    /\ gol = NoCalls

\* provider.ApplyFilters(filters, routes) is called.
ApplyFiltersCall ==
    /\ wiring = "filters" /\ pc = "idle"
    /\ result' = [NoResult EXCEPT !.routes = ApplyFilters(filtersArg, routes),
                                  !.err = "nil", !.served = TRUE]
    /\ pc' = "applied"
    /\ UNCHANGED <<cfgVars, held, gol, health, fetchVars, envVars, cache, requests, filtersArg, idx, routes,
                   outcome, upstreamCalls, breaker, fanVars>>

\* filters.ApplyFilters(routes) of models.RouteFilters is called.
ModelApplyFiltersCall ==
    /\ wiring = "filters" /\ pc = "idle"
    /\ result' = [NoResult EXCEPT !.routes = ModelApplyFilters(filtersArg, routes),
                                  !.err = "nil", !.served = TRUE]
    /\ pc' = "model-applied"
    /\ UNCHANGED <<cfgVars, held, gol, health, fetchVars, envVars, cache, requests, filtersArg, idx, routes,
                   outcome, upstreamCalls, breaker, fanVars>>

NextFilters == ApplyFiltersCall \/ ModelApplyFiltersCall

SpecFilters == InitFilters /\ [][NextFilters]_vars

\* ================================================================ properties
\* How a provider's call ended in the request that produced `result`.
CallFailed(p) ==
    outcome[p] \in {"failed", "parse", "canceled", "deadline", "transport", "status",
                    "circuit", "badtype"}
CallSucceeded(p) == outcome[p] \in {"loaded", "hit"}

\* A GetRoutes call has returned and `result` is what it returned.
Returned == pc = "idle" /\ result.served

RouteSet(rs) == {rs[i] : i \in 1..Len(rs)}

\* C1. Partial failure: when provider a's call fails and provider b's call
\* succeeds, GetRoutes returns no error and b's routes: the RouteService
\* returns the routes b's GetRoutes handed back and providersUsed = [b],
\* provider.GetRoutes returns b's routes as its filters leave them.
PartialFailure ==
    \A a, b \in ProviderNames :
        (Returned /\ CallFailed(a) /\ CallSucceeded(b)) =>
            /\ result.err = "nil"
            /\ wiring = "service" =>
                  /\ result.providersUsed = <<b>>
                  /\ RouteSet(result.routes) = RouteSet(task[b].routes)
                  /\ Len(result.routes) = Len(task[b].routes)
            /\ wiring = "provider" =>
                  result.routes = ApplyFilters(filtersArg, upstream[b])

PartialFailureWitness ==
    /\ Returned /\ wiring = "service"
    /\ CallFailed("provider1") /\ CallSucceeded("provider2")
    /\ result.routes # <<>>

\* C2. Total failure: when every provider call of a GetRoutes call fails,
\* the result is an empty route list, providersUsed is empty and no error
\* is returned.
TotalFailure ==
    (/\ Returned
     /\ \E p \in ProviderNames : CallFailed(p)
     /\ \A p \in ProviderNames : CallFailed(p) \/ outcome[p] = "none") =>
        /\ result.routes = <<>>
        /\ result.providersUsed = <<>>
        /\ result.err = "nil"

TotalFailureWitness ==
    /\ Returned
    /\ outcome["provider1"] = "transport" /\ outcome["provider2"] = "status"

\* The goroutines of the running fan-out, and the responses received so far.
Started == {p \in ProviderNames : task[p].st # "none"}
Finished == {p \in ProviderNames : task[p].st = "done"}
Received == IF pc \in {"collect", "close", "aggregate"} \/ Returned THEN idx ELSE 0
ResponsesOf(p, rsp) == {i \in 1..Len(rsp) : rsp[i].provider = p}

\* C3. Blocking join: once the collecting loop is over (and when GetRoutes
\* has returned) every goroutine that was started has reported, whether it
\* failed or not: all are done, as many responses were received as
\* goroutines were started, and the manager holds one response of each.
BlockingJoin ==
    (wiring = "service" /\ (pc \in {"close", "aggregate"} \/ Returned)) =>
        /\ Started = RouteSet(enabledProviders)
        /\ \A p \in Started : task[p].st = "done"
        /\ Received = Cardinality(Started)
        /\ chan = <<>>
        /\ pmTyped =>
              /\ Len(responses) = Cardinality(Started)
              /\ \A p \in Started : Cardinality(ResponsesOf(p, responses)) = 1

BlockingJoinWitness ==
    /\ wiring = "service" /\ pc = "aggregate"
    /\ Len(enabledProviders) = 2
    /\ \E a, b \in ProviderNames : task[a].err # "nil" /\ CallSucceeded(b)

\* C5. Structured join: a goroutine that has its response ready can send it
\* at once (the buffer has a free slot), every goroutine sends once (the
\* responses sent are as many as the goroutines that finished, none twice
\* from one provider), no goroutine is still to send when the channel is
\* closed, and none is unfinished when GetRoutes has returned.
StructuredJoin ==
    wiring = "service" =>
        /\ \A p \in ProviderNames : task[p].st = "sending" => ENABLED TaskSend(p)
        /\ Received + Len(chan) = Cardinality(Finished)
        /\ \A p \in ProviderNames :
              Cardinality(ResponsesOf(p, chan \o responses))
                  <= (IF p \in Finished THEN 1 ELSE 0)
        /\ closed => Started = Finished
        /\ pc = "idle" => Started = Finished

StructuredJoinWitness ==
    /\ wiring = "service" /\ pc = "collect"
    /\ Len(chan) = 2 /\ Cardinality(Finished) = 2

\* C4. Fan-out: a fresh GetRoutes result comes from a call of every
\* registered provider, and while one provider's call is in flight any
\* provider still to be called can be started at once.
CallInFlight(q) ==
    \/ wiring = "provider" /\ pc = "load" /\ ProviderOrder[idx] = q
    \/ wiring = "service" /\ task[q].st = "running"
AwaitingStart(p) ==
    \/ /\ wiring = "provider" /\ pc \in {"get", "load"}
       /\ \E i \in (idx + 1)..Len(ProviderOrder) : ProviderOrder[i] = p
    \/ /\ wiring = "service" /\ pc = "spawn"
       /\ \E i \in (idx + 1)..Len(enabledProviders) : enabledProviders[i] = p
StartEnabled(p) ==
    \/ wiring = "provider" /\ ProviderOrder[idx] = p /\ ENABLED RoutesFromProviderLookup
    \/ wiring = "service" /\ ENABLED Spawn
FanOutConcurrent ==
    /\ (Returned /\ ~result.cacheHit) =>
           \A p \in ProviderNames : outcome[p] # "none"
    /\ \A p, q \in ProviderNames :
           (p # q /\ CallInFlight(q) /\ AwaitingStart(p)) => StartEnabled(p)

\* The five fields two routes must share to be the same route.
Tuple(r) == <<r.airline, r.sourceAirport, r.destinationAirport, r.codeShare, r.stops>>
CopiesOf(r, rs) == {i \in 1..Len(rs) : Tuple(rs[i]) = Tuple(r)}

SumOfProviders ==
    (/\ Returned /\ wiring = "provider" /\ filtersArg = NoFilters
     /\ \A p \in ProviderNames : CallSucceeded(p)) =>
        /\ result.routes = upstream["provider1"] \o upstream["provider2"]
        /\ Len(result.routes) =
              Len(upstream["provider1"]) + Len(upstream["provider2"])

SumOfProvidersWitness ==
    /\ Returned /\ wiring = "provider" /\ filtersArg = NoFilters
    /\ \A p \in ProviderNames : CallSucceeded(p)
    /\ Len(upstream["provider1"]) = 2 /\ Len(upstream["provider2"]) = 2
    /\ Len(result.routes) = 4
    /\ \E i \in 1..2 : CopiesOf(upstream["provider1"][i], upstream["provider2"]) # {}

\* The sort's composite key, compared field by field.
KeyLeq(a, b) ==
    LET ka == <<a.airline, a.sourceAirport, a.destinationAirport>>
        kb == <<b.airline, b.sourceAirport, b.destinationAirport>>
    IN  \/ \E i \in 1..3 : (\A j \in 1..(i - 1) : ka[j] = kb[j])
                               /\ StrLess(ka[i], kb[i])
        \/ (ka = kb /\ a.stops <= b.stops)

\* C8. Sort: in every GetRoutes result the composite key (airline,
\* sourceAirport, destinationAirport, stops) never decreases from a route
\* to the next.
SortedResult ==
    Returned => \A i \in 1..(Len(result.routes) - 1) :
                    KeyLeq(result.routes[i], result.routes[i + 1])

\* C9. Cache hit: a lookup that finds a live entry under the key hands the
\* entry's value back, does not go on to the loader, leaves the cache as
\* it is, and no request is made to the upstream.
LiveEntry(key) == key \in DOMAIN cache /\ now <= cache[key].expiration
LookupStep == wiring = "provider" /\ pc = "get" /\ <<pc, idx>>' # <<pc, idx>>
CacheHit ==
    [][ (LookupStep /\ LiveEntry(CacheKeyOf(ProviderOrder[idx]))) =>
            /\ pc' # "load"
            /\ routes' = routes \o cache[CacheKeyOf(ProviderOrder[idx])].value
            /\ outcome'[ProviderOrder[idx]] = "hit"
            /\ upstreamCalls' = upstreamCalls
            /\ cache' = cache ]_vars

CacheHitWitness ==
    /\ Returned /\ wiring = "provider"
    /\ \A p \in ProviderNames : outcome[p] = "hit" /\ upstreamCalls[p] = 1
    /\ result.routes # <<>>

\* C10. Cache load failure: GetOrLoad hands the loader's error back as it
\* is and stores nothing; after a failed load the cache is as before, no
\* routes are added, and a lookup of the same key misses again.
LoadStep == wiring = "provider" /\ pc = "load" /\ pc' # "load"
LoadFailure ==
    /\ [](\A p \in ProviderNames : \A loaded \in LoaderOutcomes(p) :
            loaded.err # "nil" =>
                LET done == GetOrLoadStore(cache, CacheKeyOf(p), loaded, now)
                IN  done.err = loaded.err /\ done.cache = cache)
    /\ [][ (LoadStep /\ outcome'[ProviderOrder[idx]] # "loaded") =>
              /\ outcome'[ProviderOrder[idx]] \in {"transport", "status", "circuit"}
              /\ cache' = cache
              /\ routes' = routes
              /\ GetOrLoadLookup(cache', cacheEnabled', CacheKeyOf(ProviderOrder[idx]),
                                 now').kind = "miss" ]_vars

LoadFailureWitness ==
    /\ wiring = "provider" /\ requests = 2 /\ pc = "get" /\ idx = 2
    /\ outcome["provider1"] = "transport"
    /\ upstreamCalls["provider1"] = FailureThreshold + 1
    /\ "provider1_routes" \notin {k[1] : k \in DOMAIN cache}

\* What the filters ask of a route, field by field.
Satisfies(f, r) ==
    /\ (f.airline = EmptyStr \/ r.airline = f.airline)
    /\ (f.sourceAirport = EmptyStr \/ r.sourceAirport = f.sourceAirport)
    /\ (f.destinationAirport = EmptyStr \/ r.destinationAirport = f.destinationAirport)
    /\ (f.maxStops = <<>> \/ r.stops <= f.maxStops[1])
SatisfyingRoute(r) == Satisfies(filtersArg, r)
Matching == SelectSeq(routes, SatisfyingRoute)
EffectiveLimit == IF filtersArg.limit = 0 THEN 100 ELSE filtersArg.limit
Least(a, b) == IF a <= b THEN a ELSE b

\* C19. Pagination: provider.ApplyFilters returns at most limit routes (100
\* when the limit is unset); they are the matching routes after the first
\* offset of them, in order: those and no others are skipped.
PaginationBounds ==
    pc = "applied" =>
        /\ Len(result.routes) <= EffectiveLimit
        /\ result.routes =
              SubSeq(Matching, filtersArg.offset + 1,
                     Least(Len(Matching), filtersArg.offset + EffectiveLimit))

PaginationBoundsWitness ==
    /\ pc = "applied"
    /\ filtersArg.offset = 1 /\ filtersArg.limit = 1
    /\ Len(Matching) = 3 /\ Len(routes) > 3 - 1
    /\ result.routes = <<Matching[2]>>

\* C20. Filter predicate: every route ApplyFilters returns satisfies each
\* filter that is set, and without offset and limit the output is the
\* satisfying input routes in input order (provider.ApplyFilters and
\* RouteFilters.ApplyFilters alike).
FilterPredicate ==
    (pc \in {"applied", "model-applied"}) =>
        /\ \A i \in 1..Len(result.routes) : Satisfies(filtersArg, result.routes[i])
        /\ (pc = "model-applied"
              \/ (filtersArg.offset = 0 /\ filtersArg.limit = 0
                    /\ Len(routes) <= 100)) =>
              result.routes = Matching

FilterPredicateWitness ==
    /\ pc = "model-applied"
    /\ filtersArg.airline = AA /\ filtersArg.maxStops = <<0>>
    /\ Len(routes) = 3 /\ Len(result.routes) = 2
    /\ routes[1].stops = 0 /\ routes[2].stops = 1 /\ routes[3].stops = 0

\* The provider whose lookup has just hit: no time has passed since.
JustHit(p) ==
    /\ wiring = "provider" /\ outcome[p] = "hit"
    /\ \/ p = ProviderOrder[1] /\ pc = "get" /\ idx = 2
       \/ p = ProviderOrder[2] /\ pc = "filter"

\* A load step of GetOrLoad that stores a value, and an entry whose expiry
\* has passed.
StoreStep == LoadStep /\ cacheEnabled /\ outcome'[ProviderOrder[idx]] = "loaded"
Expired(key) == key \in DOMAIN cache /\ now > cache[key].expiration

\* MemoryCacheService: a value set at t0 under ttl is found at t exactly
\* while t is not after t0 + ttl.
MemExpiry ==
    \A t0 \in 0..MaxTime : \A t \in t0..(MaxTime + ProviderCacheTTL + 1) :
        \A ttl \in {DefaultTTL, ProviderCacheTTL} :
            LET key == ProviderKey("provider1", NoFilters)
                c == MemSet(<<>>, TRUE, key, <<>>, ttl, t0)
            IN  /\ c[key].expiration = t0 + ttl
                /\ MemGet(c, TRUE, key, t).found <=> (t <= t0 + ttl)

\* C13 (as amended). Cache expiry: a value GetOrLoad stores expires at store
\* time + DefaultTTL (MemoryCacheService.Set: + its ttl); no Get or GetOrLoad
\* returns an entry after its expiry, and an entry whose expiry has passed is
\* a miss while it is still in the cache, swept or not.
CacheExpiry ==
    /\ [](\A p \in ProviderNames : JustHit(p) =>
            /\ CacheKeyOf(p) \in DOMAIN cache
            /\ now <= cache[CacheKeyOf(p)].expiration)
    /\ [][ StoreStep =>
              cache'[CacheKeyOf(ProviderOrder[idx])].expiration = now + DefaultTTL ]_vars
    /\ [][ (LookupStep /\ cacheEnabled /\ Expired(CacheKeyOf(ProviderOrder[idx]))) =>
              pc' = "load" /\ routes' = routes ]_vars
    /\ []MemExpiry

\* The expired entry is still in the cache and the lookup has gone on to the
\* loader.
CacheExpiryWitness ==
    /\ wiring = "provider" /\ pc = "load" /\ cacheEnabled
    /\ Expired(CacheKeyOf(ProviderOrder[idx]))

\* C13 as stated: no entry is returned at or after its expiry.
CacheExpiryStrict ==
    \A p \in ProviderNames : JustHit(p) =>
        /\ CacheKeyOf(p) \in DOMAIN cache
        /\ now < cache[CacheKeyOf(p)].expiration

\* The cache entries of provider p, under either wiring's key prefix.
EntriesOf(p) ==
    { k \in DOMAIN cache : k[1] \in {CacheKeyOf(p)[1], ProviderKey(p, NoFilters)[1]} }

\* The fields of the filters that CacheKey.String formats.
SameKeyFields(f1, f2) ==
    /\ f1.airline = f2.airline
    /\ f1.sourceAirport = f2.sourceAirport
    /\ f1.destinationAirport = f2.destinationAirport
    /\ f1.maxStops = f2.maxStops

LiveFor(p) ==
    LET key == IF wiring = "provider" THEN CacheKeyOf(p)
               ELSE ProviderKey(p, filtersArg)
    IN  cacheEnabled /\ key \in DOMAIN cache /\ now <= cache[key].expiration

\* The second of two GetRoutes calls has found provider p in the cache.
SecondCallHit(p) ==
    /\ requests = 2
    /\ \/ wiring = "provider" /\ outcome[p] = "hit"
       \/ /\ wiring = "service" /\ pc = "idle" /\ result.cacheHit
          /\ \E i \in DOMAIN result.providersUsed : result.providersUsed[i] = p

TwoCallsOneFetchService ==
    /\ wiring = "service" /\ SecondCallHit("provider1")
    /\ upstreamCalls["provider1"] = 2

\* Provider p's upstream has not answered a request well so far (its
\* payload was never stored) and no cool-down can have elapsed.
DownSinceStart(p) ==
    /\ wiring = "provider" /\ cacheEnabled
    /\ CacheKeyOf(p) \notin DOMAIN cache
    /\ now < CoolDown

\* The requests the step makes to provider p's upstream.
CallsInStep(p) == upstreamCalls'[p] - upstreamCalls[p]

\* C14. Circuit breaker fail-fast: FailureThreshold failures in a row open
\* provider p's breaker; while it is open no step reaches p's upstream, and a
\* fetch fails at once with nothing fetched or stored. With an upstream that
\* fails throughout, however many GetRoutes calls are made before the
\* cool-down ends, the upstream sees FailureThreshold requests and no more.
FailFast ==
    /\ [][ \A p \in ProviderNames :
              breaker[p].state = "open" => CallsInStep(p) = 0 ]_vars
    /\ [][ (LoadStep /\ breaker[ProviderOrder[idx]].state = "open") =>
              /\ outcome'[ProviderOrder[idx]] = "circuit"
              /\ routes' = routes
              /\ cache' = cache ]_vars
    /\ [](\A p \in ProviderNames : DownSinceStart(p) =>
            /\ upstreamCalls[p] <= FailureThreshold
            /\ breaker[p].state = "open" <=> upstreamCalls[p] = FailureThreshold
            /\ breaker[p].state # "half-open")

\* The first GetRoutes opened provider1's breaker with its third request,
\* the second was refused by it.
FailFastWitness ==
    /\ Returned /\ requests = 2 /\ DownSinceStart("provider1")
    /\ outcome["provider1"] = "circuit"
    /\ breaker["provider1"].state = "open"
    /\ upstreamCalls["provider1"] = FailureThreshold

\* The step is provider p's fetch.
FetchOf(p) == LoadStep /\ ProviderOrder[idx] = p

\* C15. Circuit-breaker state machine: a breaker moves from closed to open
\* when its count reaches FailureThreshold, from open to half-open once the
\* cool-down has elapsed, from half-open to closed on a trial that succeeds
\* and to open on a trial that fails, and in no other way; a success while
\* closed leaves the count at 0.
BreakerStateMachine ==
    [][ \A p \in ProviderNames :
          LET from == breaker[p].state
              to == breaker'[p].state
          IN  /\ (from = "closed" /\ to = "open") =>
                    /\ FetchOf(p) /\ outcome'[p] # "loaded"
                    /\ breaker[p].failures + CallsInStep(p) = FailureThreshold
              /\ (from = "open" /\ to = "half-open") =>
                    /\ now >= breaker[p].openedAt + CoolDown
                    /\ CallsInStep(p) = 0
              /\ (from = "half-open" /\ to = "closed") =>
                    /\ FetchOf(p) /\ outcome'[p] = "loaded" /\ CallsInStep(p) = 1
              /\ (from = "half-open" /\ to = "open") =>
                    /\ FetchOf(p) /\ outcome'[p] # "loaded" /\ CallsInStep(p) = 1
              /\ <<from, to>> \notin {<<"closed", "half-open">>, <<"open", "closed">>}
              /\ (from = "closed" /\ FetchOf(p) /\ outcome'[p] = "loaded") =>
                    breaker'[p] = ClosedBreaker
              /\ (from = "closed" /\ to = "closed" /\ FetchOf(p)) =>
                    breaker'[p].failures < FailureThreshold ]_vars

\* provider1's breaker was opened, let a trial through after the cool-down
\* and was closed by the trial's success.
BreakerStateMachineWitness ==
    /\ wiring = "provider" /\ now = CoolDown
    /\ breaker["provider1"] = ClosedBreaker
    /\ outcome["provider1"] = "loaded"
    /\ upstreamCalls["provider1"] = FailureThreshold + 1

\* C16. Circuit-breaker isolation: a fetch of one provider leaves the other
\* provider's breaker as it is; while provider2's breaker is open and
\* provider1's is not, provider1's fetch reaches its upstream, and its routes
\* are returned.
BreakerIsolation ==
    /\ [][ \A p, q \in ProviderNames :
              (p # q /\ FetchOf(q)) =>
                  breaker'[p] = breaker[p] /\ CallsInStep(p) = 0 ]_vars
    /\ [][ (FetchOf("provider1") /\ breaker["provider2"].state = "open"
              /\ breaker["provider1"].state # "open") =>
                  /\ CallsInStep("provider1") >= 1
                  /\ outcome'["provider1"] # "circuit" ]_vars
    /\ [](\A p \in ProviderNames :
            (Returned /\ wiring = "provider" /\ outcome[p] \in {"loaded", "hit"}
                /\ filtersArg.limit = 0 /\ filtersArg.offset = 0) =>
                \A i \in 1..Len(ApplyFilters(filtersArg, upstream[p])) :
                    \E j \in 1..Len(result.routes) :
                        result.routes[j] = ApplyFilters(filtersArg, upstream[p])[i])

\* provider2's breaker is open and refused the second GetRoutes, which
\* fetched provider1's routes and returned them.
BreakerIsolationWitness ==
    /\ Returned /\ wiring = "provider" /\ requests = 2
    /\ breaker["provider2"].state = "open" /\ outcome["provider2"] = "circuit"
    /\ breaker["provider1"] = ClosedBreaker /\ outcome["provider1"] = "loaded"
    /\ upstreamCalls["provider1"] = 2
    /\ result.routes # <<>>

\* The step is provider p's Provider1/Provider2.GetRoutes reaching makeRequest.
RequestOf(p) ==
    wiring = "service" /\ task[p].st = "running" /\ task'[p].st = "sending"
        /\ outcome'[p] \in {"loaded", "failed"}

BreakerStates ==
    { [state |-> s, failures |-> f, openedAt |-> 0] :
        s \in {"closed", "open", "half-open"}, f \in 0..(FailureThreshold - 1) }

\* The requests a Get may make before the breaker cb stops it.
UntilOpen(cb) ==
    IF cb.state = "open" THEN 0
    ELSE IF cb.state = "half-open" THEN 1
    ELSE FailureThreshold - cb.failures

\* C18. Retry bound: one fetch makes at most 1 + retries requests; it stops
\* at the first success (after nfail failures it has made nfail + 1
\* requests); and against an upstream that keeps failing it makes a request
\* only while the breaker lets it through: none once the breaker is open.
RetryBound ==
    /\ \A nfail \in 0..(Retries + 1) :
          LET data == MakeRequest(0, nfail)
          IN  /\ data.calls <= 1 + Retries
              /\ data.err = "nil" => data.calls = nfail + 1
              /\ data.err = "nil" <=> nfail < Retries
    /\ \A cb \in BreakerStates : \A nfail \in 0..(RetryCount + 2) :
          LET run == RestyGet(cb, nfail, 1, 0)
          IN  /\ run.calls <= 1 + RetryCount
              /\ run.res = "ok" => run.calls = nfail + 1
              /\ run.calls <= UntilOpen(cb)
              /\ run.res # "ok" =>
                    run.calls = Least(UntilOpen(cb), 1 + RetryCount)
    /\ [][ \A p \in ProviderNames :
              CallsInStep(p) <=
                  IF wiring = "provider" THEN 1 + RetryCount ELSE 1 + Retries ]_vars
    /\ [][ \A p \in ProviderNames :
              (FetchOf(p) /\ outcome'[p] # "loaded") =>
                  CallsInStep(p) = Least(UntilOpen(breaker[p]), 1 + RetryCount) ]_vars

\* One GetRoutes of the RouteService: provider1's makeRequest gave up after
\* Retries failed requests, provider2's stopped at its second request, which
\* succeeded.
RetryBoundWitness ==
    /\ Returned /\ wiring = "service" /\ requests = 1
    /\ outcome["provider1"] = "failed" /\ upstreamCalls["provider1"] = Retries
    /\ outcome["provider2"] = "loaded" /\ upstreamCalls["provider2"] = 2

\* The providers whose call succeeded, in the order their routes were merged.
MergedFrom ==
    IF wiring = "provider" THEN SelectSeq(ProviderOrder, CallSucceeded)
    ELSE result.providersUsed

\* What provider p's adapter hands back before any filter is applied.
RawRoutes(p) ==
    IF wiring = "provider" THEN upstream[p]
    ELSE ValidateAndProcessRoutes(upstream[p], p)

RECURSIVE Merge(_)
Merge(provs) ==
    IF provs = <<>> THEN <<>> ELSE RawRoutes(Head(provs)) \o Merge(Tail(provs))

\* Filter, then offset and limit, as the wiring has them.
FilterThenPaginate(filters, rs) ==
    IF wiring = "provider" THEN ApplyFilters(filters, rs)
    ELSE ModelApplyFilters(filters, rs)

\* C21. Pipeline order: a freshly computed GetRoutes result is the filters,
\* the offset and the limit applied to the sorted, de-duplicated merge of the
\* routes of the providers that succeeded.
PipelineOrder ==
    (Returned /\ ~result.cacheHit) =>
        \E s \in SortRoutes(RemoveDuplicates(Merge(MergedFrom))) :
            result.routes = FilterThenPaginate(filtersArg, s)

\* C22. Cancellation: a GetRoutes call whose context was cancelled, or whose
\* deadline passed, while it ran returns that failure and no result; and a
\* call returns a failure in no other case.
Cancellation ==
    Returned =>
        /\ ctx # "live" => (result.err = ctx /\ result.routes = <<>>)
        /\ result.err # "nil" => (ctx # "live" /\ result.err = ctx)

\* Every route of the list carries the provider p.
StampedBy(p, rs) == \A i \in 1..Len(rs) : rs[i].provider = p

\* C23. Provider stamping: the routes a provider adapter hands back, from its
\* upstream or from its cache entry, all carry the adapter's own name:
\* the routes of Provider1/Provider2.GetRoutes, and the routes that
\* routesFromProvider1/2 load, cache and return.
ProviderStamping ==
    \A p \in ProviderNames :
        /\ StampedBy(p, task[p].routes)
        /\ \A k \in EntriesOf(p) : StampedBy(p, cache[k].value)
        /\ (wiring = "adapter" /\ Returned /\ outcome[p] # "none") =>
              StampedBy(p, result.routes)

\* A record the validation drops: a required text field is empty or the
\* number of stops is negative.
Droppable(r) ==
    \/ r.airline = EmptyStr
    \/ r.sourceAirport = EmptyStr
    \/ r.destinationAirport = EmptyStr
    \/ r.codeShare = EmptyStr
    \/ r.stops < 0

KeptRecord(r) == ~Droppable(r)

\* The records of a body that are not dropped, in the body's order, carrying
\* the adapter's name.
KeptOf(p) ==
    LET kept == SelectSeq(upstream[p], KeptRecord)
    IN  [i \in 1..Len(kept) |-> [kept[i] EXCEPT !.provider = p]]

MatchingFilters(r) == RouteMatches(filtersArg, r)

\* C24. Record validation: when an adapter has fetched and parsed a body, the
\* call succeeds whatever records the body holds, and it returns exactly the
\* body's records that have all four text fields and no negative stops (of
\* those, the ones the call's filters select), in the body's order.
RecordValidation ==
    \A p \in ProviderNames :
        (wiring = "adapter" /\ Returned /\ outcome[p] = "loaded") =>
            /\ result.err = "nil"
            /\ result.routes = SelectSeq(KeptOf(p), MatchingFilters)

\* An adapter returned a body of three records with its middle record, the
\* only invalid one, dropped.
RecordValidationWitness ==
    \E p \in ProviderNames :
        /\ wiring = "adapter" /\ Returned /\ outcome[p] = "loaded"
        /\ Len(upstream[p]) = 3
        /\ ~Droppable(upstream[p][1])
        /\ Droppable(upstream[p][2])
        /\ ~Droppable(upstream[p][3])
        /\ upstream[p][1] # upstream[p][3]
        /\ Len(result.routes) = 2
        /\ result.err = "nil"

\* The step in which adapter p's GetRoutes runs from its cache lookup to its
\* return statement.
GetRoutesRan(p) == task[p].st = "running" /\ task'[p].st = "sending"

\* C25. Provider caching on success only: an adapter's GetRoutes whose fetch
\* (after all retries) or parse fails leaves the cache as it was, so that its
\* key still misses; the cache is written only by a GetRoutes that fetched
\* and parsed; and a GetRoutes of an enabled adapter whose lookup misses
\* contacts the upstream.
CacheOnSuccessOnly ==
    [][\A p \in ProviderNames :
          /\ GetRoutesRan(p) =>
               /\ task'[p].err # "nil" =>
                    /\ cache' = cache
                    /\ ~MemGet(cache', cacheEnabled,
                               ProviderKey(p, filtersArg), now).found
               /\ cache' # cache =>
                    (task'[p].err = "nil" /\ outcome'[p] = "loaded")
               /\ (providerEnabled[p]
                     /\ ~MemGet(cache, cacheEnabled,
                                ProviderKey(p, filtersArg), now).found) =>
                    upstreamCalls'[p] > upstreamCalls[p]
          /\ ~(\E q \in ProviderNames : GetRoutesRan(q)) => cache' = cache
      ]_vars

\* Over a working cache, an adapter's first call failed its fetch after all
\* retries; its second call contacted the upstream again and failed to parse
\* the answer; the cache is still empty.
CacheOnSuccessOnlyWitness ==
    \E p \in ProviderNames :
        /\ wiring = "adapter" /\ cacheEnabled
        /\ requests = 2 /\ Returned
        /\ result.err = "parse"
        /\ upstreamCalls[p] = Retries + 1
        /\ cache = <<>>

HealthyCount == Cardinality({p \in DOMAIN health.providers :
                                health.providers[p] = "healthy"})

\* C26. Health derivation: the response of GetHealth holds a status, healthy
\* or unhealthy, for every registered provider, and its overall status is
\* healthy exactly when all of them are healthy, degraded exactly when at
\* least one but not all are, and unhealthy exactly when none is.
HealthDerivation ==
    health.served =>
        /\ DOMAIN health.providers = ProviderNames
        /\ \A p \in ProviderNames :
              health.providers[p] \in {"healthy", "unhealthy"}
        /\ health.status = "healthy" <=>
              HealthyCount = Cardinality(ProviderNames)
        /\ health.status = "degraded" <=>
              (HealthyCount >= 1 /\ HealthyCount < Cardinality(ProviderNames))
        /\ health.status = "unhealthy" <=> HealthyCount = 0

\* GetHealth answered "unhealthy": both providers are enabled and neither
\* probe passed.
HealthDerivationWitness ==
    /\ health.served
    /\ health.status = "unhealthy"
    /\ \A p \in ProviderNames : providerEnabled[p]
    /\ ctx = "live"

\* Two routes of equal sort key: the less function orders them neither way.
SameSortKey(a, b) == ~RouteLess(a, b) /\ ~RouteLess(b, a)

PositionIn(rs, r) == CHOOSE i \in 1..Len(rs) : rs[i] = r

\* C27. Sort stability: in the routes the service returns, two routes of
\* equal sort key (airline, source, destination, stops) stand in the order
\* they had in the merged list after deduplication.
SortStability ==
    (wiring = "service" /\ Returned /\ ~result.cacheHit) =>
        LET deduped == RemoveDuplicates(Merge(result.providersUsed))
        IN  \A i, j \in 1..Len(result.routes) :
                (i < j /\ SameSortKey(result.routes[i], result.routes[j])) =>
                    PositionIn(deduped, result.routes[i])
                        < PositionIn(deduped, result.routes[j])

\* A route by its key fields, and a list of routes by theirs.
KeyFields(r) ==
    <<r.airline, r.sourceAirport, r.destinationAirport, r.codeShare, r.stops>>

KeySequence(rs) == [i \in 1..Len(rs) |-> KeyFields(rs[i])]

\* C28. Order determinism: the sequence of routes (by key fields) the service
\* returns is the one it returns in whatever order the providers that
\* answered complete, the payloads being the same.
OrderDeterminism ==
    (wiring = "service" /\ Returned /\ ~result.cacheHit) =>
        \A order \in SetPerms({ result.providersUsed[i] :
                                  i \in 1..Len(result.providersUsed) }) :
            \A s \in SortRoutes(RemoveDuplicates(Merge(order))) :
                KeySequence(FilterThenPaginate(filtersArg, s))
                    = KeySequence(result.routes)

\* makeRequest sits in its select and the timer has not fired.
Waiting == pc = "wait" /\ now - started < Backoff(idx)

\* C29. Backoff: a wait of makeRequest ends by its timer only when the
\* wait's length, which is the iteration's number in seconds, is reached, and
\* that length is not below the one of the wait before; while the context is
\* done no request goes to the upstream, and a wait whose timer has not
\* fired ends, when the context is done, with the return of the context's
\* error.
BackoffWaits ==
    [][/\ (pc = "wait" /\ pc' \in {"get", "loop"}) =>
            /\ now - started >= Backoff(idx)
            /\ idx > 1 => Backoff(idx) >= Backoff(idx - 1)
       /\ ctx # "live" => upstreamCalls' = upstreamCalls
       /\ (Waiting /\ ctx # "live") =>
            /\ pc' = "idle"
            /\ result'.served /\ result'.err = ctx
            /\ upstreamCalls' = upstreamCalls
      ]_vars

\* The caller cancelled during the wait before the third attempt, which is
\* longer than the wait before the second: makeRequest returned the
\* context's error after two requests.
BackoffWaitsWitness ==
    /\ wiring = "fetch" /\ Returned
    /\ result.err = "canceled"
    /\ idx = 2
    /\ upstreamCalls[FetchProvider] = 2
    /\ now - started < Backoff(idx)
    /\ Backoff(2) > Backoff(1)

\* C30. Per-attempt timeout: a request to the upstream never lasts longer
\* than the provider's timeout, and when a request has timed out the
\* attempts that remain are made: makeRequest returns a body or has made all
\* its attempts.
TimeoutRetryable ==
    /\ (wiring = "fetch" /\ pc = "get") => now - started <= Timeout
    /\ (wiring = "fetch" /\ Returned /\ lastErr = "timeout") =>
          \/ result.err = "nil"
          \/ upstreamCalls[FetchProvider] = Retries

\* The step in which RouteServiceImpl.GetRoutes returns a response.
ServiceReturns ==
    /\ wiring = "service"
    /\ pc' = "idle" /\ result'.served
    /\ (pc # "idle" \/ requests' # requests)

NamesIn(used) == { used[i] : i \in 1..Len(used) }

ResponseIsolation ==
    held.set =>
        /\ held.obj = held.asReturned
        /\ ~held.obj.cacheHit

\* The values the successful loader runs for key k produced.
ProducedFor(k) == { v \in gol.produced : v.key = k }

AllCallsFinished ==
    /\ wiring = "concurrent"
    /\ \A c \in CallerIds : gol.callers[c].st = "done"

\* A caller of an enabled cache returns a value that a successful run of the
\* loader for its key produced, or the error of its own failed run and no
\* value.
ReturnsOfRuns ==
    \A c \in DOMAIN gol.callers :
        (cacheEnabled /\ gol.callers[c].st = "done") =>
            IF gol.callers[c].err = "nil"
                THEN gol.callers[c].value \in ProducedFor(gol.callers[c].key)
                ELSE /\ gol.callers[c].value = <<>>
                     /\ gol.callers[c].run \in gol.failed

\* A step of a caller on one key leaves the entry of every other key as it
\* is: it is not created, changed or removed.
OtherKeysUntouched ==
    \A c \in DOMAIN gol.callers :
        gol'.callers[c] # gol.callers[c] =>
            \A k \in (DOMAIN cache \cup DOMAIN cache') \ {gol'.callers[c].key} :
                /\ k \in DOMAIN cache /\ k \in DOMAIN cache'
                /\ cache'[k] = cache[k]

\* The entry of key k is live and holds a value one of the runs produced.
LiveFromRun(k) ==
    /\ CacheGet(cache, k, now).found
    /\ CacheGet(cache, k, now).value \in ProducedFor(k)

\* The step in which the last of the calls returns.
LastCallReturns == ~AllCallsFinished /\ AllCallsFinished'

\* At the end of the last Set of key k the entry may still be found.
WithinTTL(k) == now <= gol.stored[k] + DefaultTTL

\* C32, as stated. Concurrent misses on one key: every caller returns a
\* value of a successful loader run or its run's error; when the last call
\* has finished and a loader succeeded for the key, the cache holds a live
\* entry for the key with a value of one of the runs; a call on another key
\* never touches the key's entry.
ConcurrentMissesLive ==
    /\ []ReturnsOfRuns
    /\ [][LastCallReturns =>
            \A k \in ConcurrentKeys :
                (ProducedFor(k) # {})' => LiveFromRun(k)']_vars
    /\ [][OtherKeysUntouched]_vars

\* C32, amended. As above, but the entry is live only if DefaultTTL has not
\* passed since the last Set of the key: when the last call finishes later
\* than that, the entry has expired (and may have been swept).
ConcurrentMisses ==
    /\ []ReturnsOfRuns
    /\ [][LastCallReturns =>
            \A k \in ConcurrentKeys :
                (ProducedFor(k) # {})' =>
                    (IF WithinTTL(k) THEN LiveFromRun(k)
                                     ELSE ~CacheGet(cache, k, now).found)']_vars
    /\ [][OtherKeysUntouched]_vars

\* Two callers missed on provider1's key at the same time and both ran the
\* loader with success, a third loaded provider2's key: all have returned,
\* and provider1's entry is live with the value of one of the two runs.
ConcurrentMissesWitness ==
    /\ AllCallsFinished
    /\ \E a, b \in CallerIds :
          /\ a # b
          /\ gol.callers[a].key = CacheKeyOf("provider1")
          /\ gol.callers[b].key = CacheKeyOf("provider1")
          /\ gol.callers[a].run # 0 /\ gol.callers[b].run # 0
          /\ gol.callers[a].err = "nil" /\ gol.callers[b].err = "nil"
          /\ gol.callers[a].value # gol.callers[b].value
    /\ \E c \in CallerIds : gol.callers[c].key = CacheKeyOf("provider2")
    /\ LiveFromRun(CacheKeyOf("provider1"))

\* The five fields removeDuplicates' key is made of.
RouteTuple(r) ==
    <<r.airline, r.sourceAirport, r.destinationAirport, r.codeShare, r.stops>>

\* The first route of each distinct 5-tuple of rs, in the order of rs.
RECURSIVE FirstOccurrences(_, _)
FirstOccurrences(rs, n) ==
    IF n = 0 THEN <<>>
    ELSE IF \E j \in 1..(n - 1) : RouteTuple(rs[j]) = RouteTuple(rs[n])
        THEN FirstOccurrences(rs, n - 1)
        ELSE Append(FirstOccurrences(rs, n - 1), rs[n])

Deduped == wiring = "dedup" /\ pc = "deduped"

\* C33: removeDuplicates returns, for each distinct 5-tuple (airline,
\* sourceAirport, destinationAirport, codeShare, stops) of its input, the
\* first route with that tuple, provider tag included, and the kept routes
\* are in the order of the input.
DedupFirstOccurrence ==
    Deduped => result.routes = FirstOccurrences(routes, Len(routes))

\* What of C33 holds for every input: each kept route is the first route of
\* its 5-tuple in the input, and the kept routes are a subsequence of it.
DedupKeptAreFirst ==
    Deduped =>
        \E pos \in [1..Len(result.routes) -> 1..Len(routes)] :
            /\ \A i \in 1..Len(result.routes) :
                   /\ result.routes[i] = routes[pos[i]]
                   /\ \A j \in 1..(pos[i] - 1) :
                          RouteTuple(routes[j]) # RouteTuple(routes[pos[i]])
            /\ \A i, j \in 1..Len(result.routes) : i < j => pos[i] < pos[j]

\* C34: removeDuplicates drops a route only if an earlier route has the same
\* five fields: a route of every 5-tuple of the input is among the kept
\* routes, whatever the fields' texts are.
DedupNeverMerges ==
    Deduped =>
        \A i \in 1..Len(routes) :
            \E k \in 1..Len(result.routes) :
                RouteTuple(result.routes[k]) = RouteTuple(routes[i])

\* A call of RouteServiceImpl.GetRoutes that returns a cached response.
ServiceHit ==
    /\ wiring \in {"service", "aggregate"}
    /\ pc = "idle" /\ pc' = "idle" /\ requests' = requests + 1
    /\ result'.served /\ result'.cacheHit

\* C35: GetRoutes returns a cached response only to a request whose filters
\* equal the filters the response was computed for (two different
\* RouteFilters never share an aggregate cache key, whatever their texts
\* and whether MaxStops is nil or given).
AggregateFilterExact ==
    [][(ServiceHit /\ held.set /\ held.attached
            /\ held.key = AggregateKey(filtersArg'))
          => held.filters = filtersArg']_vars

\* A call of RouteServiceImpl.GetRoutes begins.
ServiceCalled ==
    /\ wiring \in {"service", "aggregate"}
    /\ pc = "idle" /\ requests' = requests + 1

\* C36: GetRoutes stores the response it has aggregated under the aggregate
\* key for five minutes, whichever providers failed; a GetRoutes with the
\* same filters within the five minutes returns the same routes and
\* providersUsed with CacheHit set, and no provider is called.
AggregateCaching ==
    /\ [][(wiring \in {"service", "aggregate"} /\ pc = "aggregate"
              /\ pc' = "idle" /\ cacheEnabled)
            => /\ AggregateKey(filtersArg) \in DOMAIN cache'
               /\ cache'[AggregateKey(filtersArg)] =
                      [value |-> result', expiration |-> now + AggregateTTL]]_vars
    /\ [][(ServiceCalled /\ held.set /\ held.attached
              /\ held.filters = filtersArg' /\ now <= held.at + AggregateTTL)
            => /\ pc' = "idle"
               /\ result'.served /\ result'.err = "nil" /\ result'.cacheHit
               /\ result'.routes = held.asReturned.routes
               /\ result'.providersUsed = held.asReturned.providersUsed
               /\ upstreamCalls' = upstreamCalls
               /\ \A p \in ProviderNames : task'[p] = NoTask]_vars

\* The response of a call in which both providers were called and failed is
\* returned again at the last minute of its entry's life.
AggregateCachingWitness ==
    /\ wiring = "aggregate" /\ Returned /\ requests = 2
    /\ result.cacheHit
    /\ filtersArg = held.filters
    /\ now = held.at + AggregateTTL
    /\ result.routes = <<>> /\ result.providersUsed = <<>>
    /\ \A p \in ProviderNames : upstreamCalls[p] > 0

\* makeRequest has returned and `result` is what it returned.
FetchReturned == wiring = "fetch" /\ pc = "idle" /\ result.served

\* The iterations a loop of n has: n, and none for n <= 0.
Iterations(n) == IF n > 0 THEN n ELSE 0

\* C38: when makeRequest returns an error under a context that is not done,
\* every attempt failed and the HTTP client was invoked exactly Retries
\* times (not at all for Retries <= 0); makeRequest returns success only from
\* a request that was answered.
AttemptCount ==
    /\ [](FetchReturned /\ ctx = "live" /\ result.err # "nil"
            => /\ result.err = "failed"
               /\ idx = Iterations(retries)
               /\ upstreamCalls[FetchProvider] = Iterations(retries))
    /\ [](FetchReturned /\ result.err = "nil"
            => upstreamCalls[FetchProvider] \in 1..Iterations(retries))
    /\ [][(wiring = "fetch" /\ pc # "idle" /\ pc' = "idle"
              /\ result'.err = "nil")
            => pc = "get" /\ ctx = "live"]_vars

AttemptCountWitness ==
    /\ FetchReturned /\ ctx = "live" /\ retries = Retries
    /\ result.err = "failed"
    /\ upstreamCalls[FetchProvider] = Retries

\* C39: with the cache configured as disabled, GetOrLoad returns (nil, nil)
\* and never runs the loader: no upstream is called, nothing is stored,
\* routesFromProvider1/2 both report the unexpected data type and the
\* aggregator's result has no routes.
DisabledCache ==
    (wiring = "provider" /\ ~cacheEnabled) =>
        /\ pc # "load"
        /\ \A p \in ProviderNames : upstreamCalls[p] = 0
        /\ cache = <<>>
        /\ routes = <<>>
        /\ \A p \in ProviderNames : outcome[p] \in {"none", "badtype"}
        /\ Returned =>
              /\ \A p \in ProviderNames : outcome[p] = "badtype"
              /\ result.routes = <<>>

DisabledCacheWitness ==
    /\ wiring = "provider" /\ ~cacheEnabled
    /\ Returned /\ requests = 2
    /\ \A p \in ProviderNames : upstream[p] # <<>> /\ outcome[p] = "badtype"
    /\ result.routes = <<>>

\* The provider a cache key of the service wiring belongs to.
KeysOf(p) == { k \in DOMAIN cache : k[1] = ProviderKey(p, NoFilters)[1] }

\* C40: a provider configured disabled returns an empty list and no error
\* from GetRoutes, its IsHealthy returns an error, and neither calls the
\* upstream or writes to the cache; GetEnabledProviders leaves it out and
\* providersUsed never names it.
DisabledProvider ==
    /\ [](\A p \in ProviderNames : ~providerEnabled[p] =>
            /\ upstreamCalls[p] = 0
            /\ KeysOf(p) = {}
            /\ p \notin NamesIn(enabledProviders)
            /\ p \notin NamesIn(providersUsed)
            /\ p \notin NamesIn(result.providersUsed)
            /\ task[p].routes = <<>> /\ task[p].err = "nil")
    /\ [][\A p \in ProviderNames :
            (/\ ~providerEnabled[p] /\ wiring = "adapter"
             /\ task[p].st = "sending" /\ task'[p].st = "none")
              => /\ result'.served /\ result'.routes = <<>>
                 /\ result'.err = "nil"
                 /\ cache' = cache /\ upstreamCalls' = upstreamCalls]_vars
    /\ [][\A p \in ProviderNames :
            (/\ ~providerEnabled[p] /\ wiring = "adapter"
             /\ requests' = requests + 1
             /\ outcome'[p] \in {"healthy", "unhealthy"})
              => /\ result'.served /\ result'.err # "nil"
                 /\ cache' = cache /\ upstreamCalls' = upstreamCalls]_vars

\* GetRoutes of the disabled provider1, whose upstream has a route, was
\* called on its own and has returned.
DisabledProviderWitness ==
    /\ wiring = "adapter" /\ ~providerEnabled["provider1"]
    /\ upstream["provider1"] # <<>>
    /\ outcome["provider1"] = "disabled"
    /\ Returned /\ task["provider1"].st = "none"
    /\ result.routes = <<>> /\ result.err = "nil"

====
